---- MODULE Spec2Model ----
(***************************************************************************)
(* line_intersection.js: getLineIntersectionData (current variant).        *)
(*                                                                         *)
(* JavaScript values are modelled as tuples that start with a tag:        *)
(*   <<"num", n, d>>   the number n/d, d a power of two; d = 0 encodes     *)
(*                     NaN (n = 0) and +/-Infinity (n = +/-1); 0 is        *)
(*                     <<"num", 0, 1>> and -0 is <<"num", 0, 2>>; a number *)
(*                     too wide for this form is <<"num", s, -1, e, m>>,   *)
(*                     the value s * m * 2^e                               *)
(*   <<"undef",0,0>>   undefined        <<"null",0,0>>   null              *)
(*   <<"bool",b,0>>    false / true     <<"str",cs,0>>   a string          *)
(*   <<"ref", a, 0>>   a reference to the heap object at address a         *)
(* Arithmetic is that of IEEE 754 binary64, rounded to nearest, ties to    *)
(* even, with both zeros.                                                  *)
(***************************************************************************)
EXTENDS Integers, Sequences, FiniteSets, TLC

VARIABLES heap, lineA, lineB, optset, budget, calls

vars == <<heap, lineA, lineB, optset, budget, calls>>

----------------------------------------------------------------------------
(* Bounds of the model *)

\* coordinates of the caller's input points range over 0..MaxCoord
MaxCoord == 2

\* number of calls of getLineIntersectionData in one behaviour of SpecSeq
MaxCalls == 2

\* the greatest length of the data given to getTrendlineData
MaxLen == 3

\* the magnitude of the far coordinates of the lines
MaxWide == 16383

----------------------------------------------------------------------------
(* Natural numbers of any size: the sequence of their digits to the base
   2^15, least digit first, without leading zeros (zero is <<>>). They carry
   the 53-bit significands, whose products do not fit the integers of the
   checker, and the powers of ten of the decimal notation. The operators
   halve the range of digits they work on. *)

Abs(n) == IF n < 0 THEN -n ELSE n

Sign(n) == IF n < 0 THEN -1 ELSE IF n > 0 THEN 1 ELSE 0

Base == 2^15

Limb(a, i) == IF i <= Len(a) THEN a[i] ELSE 0

\* the index of the highest digit of a[lo..hi] that is not zero, or 0
RECURSIVE BnTop(_, _, _)
BnTopLow(a, lo, hi, t) == IF t # 0 THEN t ELSE BnTop(a, lo, (lo + hi) \div 2)

BnTop(a, lo, hi) ==
    IF lo > hi THEN 0
    ELSE IF a[hi] # 0 THEN hi
    ELSE IF lo = hi THEN 0
    ELSE BnTopLow(a, lo, hi, BnTop(a, ((lo + hi) \div 2) + 1, hi - 1))

\* a without leading zeros
BnNorm(a) == SubSeq(a, 1, BnTop(a, 1, Len(a)))

RECURSIVE BnFromInt(_)
BnFromInt(n) == IF n = 0 THEN <<>> ELSE <<n % Base>> \o BnFromInt(n \div Base)

\* the value of a natural of at most two digits
BnToInt(a) ==
    IF a = <<>> THEN 0 ELSE IF Len(a) = 1 THEN a[1] ELSE a[1] + Base * a[2]

\* digits and carry of the digits low, followed by the digits and carry high
BnJoin(low, high) == <<low \o high[1], high[2]>>

BnLinDigit(x) == <<<<x % Base>>, x \div Base>>

\* the digits lo..hi of a * k + b * s with the carry into digit lo, and the
\* carry out of digit hi
RECURSIVE BnLinRange(_, _, _, _, _, _, _)
BnLinHigh(a, k, b, s, mid, hi, low) ==
    BnJoin(low[1], BnLinRange(a, k, b, s, mid + 1, hi, low[2]))

BnLinRange(a, k, b, s, lo, hi, carry) ==
    IF lo = hi THEN BnLinDigit(Limb(a, lo) * k + Limb(b, lo) * s + carry)
    ELSE BnLinHigh(a, k, b, s, (lo + hi) \div 2, hi,
                   BnLinRange(a, k, b, s, lo, (lo + hi) \div 2, carry))

BnCarried(r) == IF r[2] = 0 THEN r[1] ELSE Append(r[1], r[2])

\* a * k + b * s for 0 <= k < Base and s in {-1, 0, 1}, when it is not negative
BnLin(a, k, b, s) ==
    IF a = <<>> /\ b = <<>> THEN <<>>
    ELSE BnNorm(BnCarried(BnLinRange(a, k, b, s, 1,
                                     IF Len(a) >= Len(b) THEN Len(a) ELSE Len(b), 0)))

BnAdd(a, b) == BnLin(a, 1, b, 1)

\* a - b for a >= b
BnSub(a, b) == BnLin(a, 1, b, -1)

\* a * k for 0 <= k < Base
BnMulSmall(a, k) == BnLin(a, k, <<>>, 0)

\* 2 * r + bit
BnDoublePlus(r, bit) == BnLin(r, 2, <<bit>>, 1)

RECURSIVE BnCmpRange(_, _, _, _)
BnCmpLow(a, b, lo, mid, c) == IF c # 0 THEN c ELSE BnCmpRange(a, b, lo, mid)

BnCmpRange(a, b, lo, hi) ==
    IF lo = hi THEN Sign(a[lo] - b[lo])
    ELSE BnCmpLow(a, b, lo, (lo + hi) \div 2,
                  BnCmpRange(a, b, ((lo + hi) \div 2) + 1, hi))

\* -1, 0 or 1 as a is less than, equal to or greater than b
BnCmp(a, b) ==
    IF Len(a) # Len(b) THEN Sign(Len(a) - Len(b))
    ELSE IF a = <<>> THEN 0
    ELSE BnCmpRange(a, b, 1, Len(a))

\* a * Base^n
BnShiftLimbs(a, n) == IF a = <<>> THEN a ELSE [i \in 1..n |-> 0] \o a

RECURSIVE BnMulRange(_, _, _, _)
BnMulRange(a, b, lo, hi) ==
    IF lo = hi THEN BnShiftLimbs(BnMulSmall(a, b[lo]), lo - 1)
    ELSE BnAdd(BnMulRange(a, b, lo, (lo + hi) \div 2),
               BnMulRange(a, b, ((lo + hi) \div 2) + 1, hi))

BnMul(a, b) == IF a = <<>> \/ b = <<>> THEN <<>> ELSE BnMulRange(a, b, 1, Len(b))

\* a * 2^k
BnShl(a, k) == BnShiftLimbs(BnMulSmall(a, 2^(k % 15)), k \div 15)

\* digits and remainder low, under the digits high
BnJoinUnder(low, high) == <<low[1] \o high, low[2]>>

BnDivSmallDigit(x, k) == <<<<x \div k>>, x % k>>

\* the digits lo..hi of floor(a / k), with the remainder rem of the digits
\* above hi, and the remainder of the digits from lo on
RECURSIVE BnDivSmallRange(_, _, _, _, _)
BnDivSmallLow(a, k, lo, mid, high) ==
    IF high[2] >= 0 THEN BnJoinUnder(BnDivSmallRange(a, k, lo, mid, high[2]), high[1])
    ELSE high

BnDivSmallRange(a, k, lo, hi, rem) ==
    IF lo = hi THEN BnDivSmallDigit(rem * Base + a[lo], k)
    ELSE BnDivSmallLow(a, k, lo, (lo + hi) \div 2,
                       BnDivSmallRange(a, k, ((lo + hi) \div 2) + 1, hi, rem))

\* floor(a / k) for 0 < k <= Base
BnDivSmall(a, k) ==
    IF a = <<>> THEN a ELSE BnNorm(BnDivSmallRange(a, k, 1, Len(a), 0)[1])

\* floor(a / 2^k)
BnShr(a, k) ==
    IF k \div 15 >= Len(a) THEN <<>>
    ELSE BnDivSmall(SubSeq(a, (k \div 15) + 1, Len(a)), 2^(k % 15))

RECURSIVE BitsOfInt(_)
BitsOfInt(n) == IF n = 0 THEN 0 ELSE 1 + BitsOfInt(n \div 2)

\* the number of binary digits of a
BnBitLen(a) == IF a = <<>> THEN 0 ELSE 15 * (Len(a) - 1) + BitsOfInt(a[Len(a)])

\* binary digit j of a (digit 0 is the least)
BnBit(a, j) == (Limb(a, (j \div 15) + 1) \div 2^(j % 15)) % 2

RECURSIVE TrailingZerosOfInt(_)
TrailingZerosOfInt(n) == IF n % 2 = 1 THEN 0 ELSE 1 + TrailingZerosOfInt(n \div 2)

RECURSIVE BnTrailingZerosFrom(_, _)
BnTrailingZerosFrom(a, i) ==
    IF a[i] = 0 THEN 15 + BnTrailingZerosFrom(a, i + 1) ELSE TrailingZerosOfInt(a[i])

\* the number of zero binary digits at the low end of a > 0
BnTrailingZeros(a) == BnTrailingZerosFrom(a, 1)

\* long division of one digit of the dividend, a binary digit k at a time:
\* <<the digit of the quotient, the remainder>>
RECURSIVE BnDivBits(_, _, _, _, _)
BnDivBit(r, b, limb, k, acc) ==
    IF BnCmp(r, b) >= 0
    THEN BnDivBits(BnSub(r, b), b, limb, k - 1, 2 * acc + 1)
    ELSE BnDivBits(r, b, limb, k - 1, 2 * acc)

BnDivBits(r, b, limb, k, acc) ==
    IF k < 0 THEN <<<<acc>>, r>>
    ELSE BnDivBit(BnDoublePlus(r, (limb \div 2^k) % 2), b, limb, k, acc)

\* the digits lo..hi of floor(a / b), with the remainder r of the digits
\* above hi, and the remainder of the digits from lo on
RECURSIVE BnDivRange(_, _, _, _, _)
BnDivLow(a, b, lo, mid, high) ==
    IF Len(high[2]) >= 0 THEN BnJoinUnder(BnDivRange(a, b, lo, mid, high[2]), high[1])
    ELSE high

BnDivRange(a, b, lo, hi, r) ==
    IF lo = hi THEN BnDivBits(r, b, a[lo], 14, 0)
    ELSE BnDivLow(a, b, lo, (lo + hi) \div 2,
                  BnDivRange(a, b, ((lo + hi) \div 2) + 1, hi, r))

BnDivNorm(qr) == <<BnNorm(qr[1]), qr[2]>>

\* quotient and remainder of a division by one digit, as naturals
BnDivSmallNorm(qr) == <<BnNorm(qr[1]), BnFromInt(qr[2])>>

\* <<floor(a / b), a mod b>> for b > 0
BnDivMod(a, b) ==
    IF a = <<>> THEN <<a, a>>
    ELSE IF Len(b) = 1 THEN BnDivSmallNorm(BnDivSmallRange(a, b[1], 1, Len(a), 0))
    ELSE BnDivNorm(BnDivRange(a, b, 1, Len(a), <<>>))

BnSquare(a) == BnMul(a, a)

\* k^n for 0 < k < Base
RECURSIVE BnPow(_, _)
BnPowStep(sq, k, n) == IF n % 2 = 0 THEN sq ELSE BnMulSmall(sq, k)

BnPow(k, n) ==
    IF n = 0 THEN <<1>> ELSE BnPowStep(BnSquare(BnPow(k, n \div 2)), k, n)

----------------------------------------------------------------------------
(* Numbers: IEEE 754 binary64, as the language computes them.

   A number is <<"num", n, d>> when it is the fraction n/d with d a power of
   two and both below 2^SmallBits (in lowest terms, d > 0); d = 0 encodes NaN
   (n = 0) and +/-Infinity (n = +/-1). The two zeros are <<"num", 0, 1>> for
   0 and <<"num", 0, 2>> for -0. Every other double is
   <<"num", s, -1, e, m>>: the value s * m * 2^e with the sign s, and m the
   significand as a natural of Precision bits (fewer only when e is
   MinExponent). Each double has exactly one of these forms, so the same
   double is the same value; 0 and -0 are two values that == takes as
   equal (NumEq). *)

\* binary digits of a significand
Precision == 53

\* the exponent of the least significand digit of the subnormal numbers
MinExponent == -1074

\* the exponent of the least significand digit of the greatest numbers
MaxExponent == 971

\* fractions up to this many binary digits are kept as n/d
SmallBits == 14

\* the integer n as a number; n is an integer of at most 31 binary digits, so
\* that no digit of it is lost
NumOf(n) ==
    IF Abs(n) < 2^SmallBits THEN <<"num", n, 1>>
    ELSE <<"num", Sign(n), -1, BitsOfInt(Abs(n)) - Precision,
           BnShl(BnFromInt(Abs(n)), Precision - BitsOfInt(Abs(n)))>>

NaN == <<"num", 0, 0>>

\* -0
NegZero == <<"num", 0, 2>>

Inf(s) == <<"num", s, 0>>

IsNaN(a) == a[2] = 0 /\ a[3] = 0

IsInf(a) == a[2] # 0 /\ a[3] = 0

IsFinite(a) == a[3] # 0

\* the number is held as sign, exponent and significand
IsWide(a) == a[3] = -1

\* 0 or -0
IsZero(a) == a[2] = 0 /\ a[3] # 0

\* the sign of a number that is not NaN: -1 for -0 and what is below it
SignOf(a) == IF a[2] < 0 \/ a = NegZero THEN -1 ELSE 1

\* the zero of the sign s
Zero(s) == IF s < 0 THEN NegZero ELSE NumOf(0)

\* the rounded result r of a product or quotient of the sign s: a result
\* that is zero keeps the sign
Signed(r, s) == IF IsZero(r) THEN Zero(s) ELSE r

\* the double s * m * 2^e, m # 0 of at most Precision digits, in its one form
Canon(s, e, m, tz) ==
    IF e + tz >= 0
    THEN IF BnBitLen(m) + e <= SmallBits
         THEN <<"num", s * BnToInt(BnShr(m, tz)) * 2^(e + tz), 1>>
         ELSE <<"num", s, -1, e, m>>
    ELSE IF BnBitLen(m) - tz <= SmallBits /\ 0 - (e + tz) <= SmallBits
         THEN <<"num", s * BnToInt(BnShr(m, tz)), 2^(0 - (e + tz))>>
         ELSE <<"num", s, -1, e, m>>

\* overflow to Infinity
PackedAt(s, e, m) ==
    IF e > MaxExponent THEN Inf(s) ELSE Canon(s, e, m, BnTrailingZeros(m))

\* a carry out of the significand moves it one digit down
Packed(s, e, m) ==
    IF m = <<>> THEN NumOf(0)
    ELSE PackedAt(s, IF BnBitLen(m) > Precision THEN e + 1 ELSE e,
                  IF BnBitLen(m) > Precision THEN BnShr(m, 1) ELSE m)

\* round to nearest, ties to even: q is the kept part, rem what was cut off,
\* half the weight of half a unit of q
RoundUp(q, rem, half, sticky) ==
    \/ BnCmp(rem, half) > 0
    \/ BnCmp(rem, half) = 0 /\ (sticky \/ BnBit(q, 0) = 1)

\* q, the part of n above its low shift digits, rounded
Kept(n, shift, sticky, q) ==
    IF RoundUp(q, BnSub(n, BnShl(q, shift)), BnShl(<<1>>, shift - 1), sticky)
    THEN BnAdd(q, <<1>>)
    ELSE q

\* the significand of n at an exponent greater by shift
Significand(n, shift, sticky) ==
    IF shift <= 0 THEN BnShl(n, 0 - shift) ELSE Kept(n, shift, sticky, BnShr(n, shift))

Shifted(s, n, e, sticky, shift) == Packed(s, e + shift, Significand(n, shift, sticky))

\* the double nearest to s * (n + f) * 2^e, where 0 <= f < 1 and f > 0 exactly
\* when sticky; n has at least Precision + 2 digits when sticky
Normal(s, n, e, sticky) ==
    IF n = <<>> THEN NumOf(0)
    ELSE Shifted(s, n, e, sticky,
                 IF BnBitLen(n) - Precision >= MinExponent - e
                 THEN BnBitLen(n) - Precision ELSE MinExponent - e)

\* sign, exponent and significand of a finite number
Unpack(a) ==
    IF IsWide(a) THEN [s |-> a[2], e |-> a[4], m |-> a[5]]
    ELSE [s |-> Sign(a[2]), e |-> 1 - BitsOfInt(a[3]), m |-> BnFromInt(Abs(a[2]))]

\* an exact result s * n * 2^e (and a little more when sticky), to be rounded
Exact(s, n, e, sticky) == [s |-> s, n |-> n, e |-> e, sticky |-> sticky]

RoundedOf(r) == Normal(r.s, r.n, r.e, r.sticky)

\* the sum of two finite numbers given by sign, exponent and significand,
\* with both significands xm and ym brought to the exponent e
SumParts(x, y, e, xm, ym) ==
    IF x.s = y.s THEN Exact(x.s, BnAdd(xm, ym), e, FALSE)
    ELSE IF BnCmp(xm, ym) >= 0 THEN Exact(x.s, BnSub(xm, ym), e, FALSE)
    ELSE Exact(y.s, BnSub(ym, xm), e, FALSE)

SumAt(x, y, e) == SumParts(x, y, e, BnShl(x.m, x.e - e), BnShl(y.m, y.e - e))

WideAdd(x, y) == SumAt(x, y, IF x.e <= y.e THEN x.e ELSE y.e)

\* a + b on numbers; a sum that is zero is 0, but -0 + -0 is -0
NumAdd(a, b) ==
    CASE IsNaN(a) \/ IsNaN(b) -> NaN
      [] IsInf(a) /\ IsInf(b) -> IF a[2] = b[2] THEN a ELSE NaN
      [] IsInf(a) -> a
      [] IsInf(b) -> b
      [] a = NegZero /\ b = NegZero -> NegZero
      [] OTHER -> RoundedOf(WideAdd(Unpack(a), Unpack(b)))

\* -a
NumNeg(a) ==
    IF IsZero(a) THEN Zero(0 - SignOf(a)) ELSE [a EXCEPT ![2] = 0 - a[2]]

\* a - b on numbers
NumSub(a, b) == NumAdd(a, NumNeg(b))

WideMul(x, y) == Exact(x.s * y.s, BnMul(x.m, y.m), x.e + y.e, FALSE)

\* a * b on numbers
NumMul(a, b) ==
    CASE IsNaN(a) \/ IsNaN(b) -> NaN
      [] IsInf(a) \/ IsInf(b) ->
            IF a[2] = 0 \/ b[2] = 0 THEN NaN ELSE Inf(Sign(a[2]) * Sign(b[2]))
      [] OTHER -> Signed(RoundedOf(WideMul(Unpack(a), Unpack(b))),
                         SignOf(a) * SignOf(b))

\* the quotient qr of two naturals with its remainder, at the exponent e
QuotientParts(s, e, qr) == Exact(s, qr[1], e, qr[2] # <<>>)

\* n * 2^k / d, which is n / d with at least Precision + 3 digits
QuotientBy(s, n, d, e, k) == QuotientParts(s, e - k, BnDivMod(BnShl(n, k), d))

\* s * n * 2^e / d for naturals n and d > 0
Quotient(s, n, d, e) ==
    QuotientBy(s, n, d, e,
               IF Precision + 3 + BnBitLen(d) - BnBitLen(n) > 0
               THEN Precision + 3 + BnBitLen(d) - BnBitLen(n) ELSE 0)

WideDiv(x, y) == Quotient(x.s * y.s, x.m, y.m, x.e - y.e)

\* a / b on numbers
NumDiv(a, b) ==
    CASE IsNaN(a) \/ IsNaN(b) -> NaN
      [] IsInf(a) -> IF IsInf(b) THEN NaN ELSE Inf(a[2] * SignOf(b))
      [] IsInf(b) -> Zero(SignOf(a) * b[2])
      [] IsZero(b) -> IF IsZero(a) THEN NaN ELSE Inf(SignOf(a) * SignOf(b))
      [] IsZero(a) -> Zero(SignOf(a) * SignOf(b))
      [] OTHER -> Signed(RoundedOf(WideDiv(Unpack(a), Unpack(b))),
                         SignOf(a) * SignOf(b))

\* xm < ym for the significands brought to the exponent e
BelowAt(x, y, e) == BnCmp(BnShl(x.m, x.e - e), BnShl(y.m, y.e - e)) < 0

\* |x| < |y| for finite numbers given by sign, exponent and significand
WideBelow(x, y) == BelowAt(x, y, IF x.e <= y.e THEN x.e ELSE y.e)

WideLt(x, y) ==
    IF x.s # y.s THEN x.s < y.s
    ELSE IF x.s > 0 THEN WideBelow(x, y)
    ELSE IF x.s < 0 THEN WideBelow(y, x)
    ELSE FALSE

\* a < b on numbers (false when either is NaN)
NumLt(a, b) ==
    CASE IsNaN(a) \/ IsNaN(b) -> FALSE
      [] IsInf(a) /\ IsInf(b) -> a[2] < b[2]
      [] IsInf(a) -> a[2] < 0
      [] IsInf(b) -> b[2] > 0
      [] OTHER -> WideLt(Unpack(a), Unpack(b))

\* a == b on numbers (false when either is NaN; 0 == -0)
NumEq(a, b) == ~IsNaN(a) /\ ~IsNaN(b) /\ (a = b \/ (IsZero(a) /\ IsZero(b)))

\* a <= b on numbers (false when either is NaN)
NumLe(a, b) == NumLt(a, b) \/ NumEq(a, b)

\* the double nearest to n / d for integers n and d # 0
Frac(n, d) == NumDiv(NumOf(n), NumOf(d))

----------------------------------------------------------------------------
(* Strings: <<"str", cs, 0>> with cs the sequence of the code units *)

Str(cs) == <<"str", cs, 0>>

EmptyString == Str(<<>>)

\* "undefined", "null", "true", "false", "NaN", "Infinity", "[object Object]"
TextUndefined == <<117, 110, 100, 101, 102, 105, 110, 101, 100>>

TextNull == <<110, 117, 108, 108>>

TextTrue == <<116, 114, 117, 101>>

TextFalse == <<102, 97, 108, 115, 101>>

TextNaN == <<78, 97, 78>>

TextInfinity == <<73, 110, 102, 105, 110, 105, 116, 121>>

TextObject == <<91, 111, 98, 106, 101, 99, 116, 32, 79, 98, 106, 101, 99, 116, 93>>

\* white space and line terminators, which the conversion to a number strips
WhiteSpace ==
    {9, 10, 11, 12, 13, 32, 160, 5760, 8232, 8233, 8239, 8287, 12288, 65279}
    \cup (8192..8202)

IsDigit(c) == c >= 48 /\ c <= 57

RECURSIVE SkipSpace(_, _)
SkipSpace(cs, i) ==
    IF i <= Len(cs) /\ cs[i] \in WhiteSpace THEN SkipSpace(cs, i + 1) ELSE i

RECURSIVE SkipSpaceBack(_, _)
SkipSpaceBack(cs, j) ==
    IF j >= 1 /\ cs[j] \in WhiteSpace THEN SkipSpaceBack(cs, j - 1) ELSE j

Trimmed(cs) == SubSeq(cs, SkipSpace(cs, 1), SkipSpaceBack(cs, Len(cs)))

\* the index after the decimal digits that start at i
RECURSIVE DigitsEnd(_, _)
DigitsEnd(cs, i) ==
    IF i <= Len(cs) /\ IsDigit(cs[i]) THEN DigitsEnd(cs, i + 1) ELSE i

\* the value of a digit of a literal to a base up to 36 (99 for no digit)
DigitOf(c) ==
    IF IsDigit(c) THEN c - 48
    ELSE IF c >= 97 /\ c <= 122 THEN c - 87
    ELSE IF c >= 65 /\ c <= 90 THEN c - 55
    ELSE 99

\* the natural written by the digits cs[lo..hi] to the base radix
RECURSIVE DigitsValue(_, _, _, _)
DigitsValue(cs, radix, lo, hi) ==
    IF lo > hi THEN <<>>
    ELSE IF lo = hi THEN BnFromInt(DigitOf(cs[lo]))
    ELSE BnAdd(BnMul(DigitsValue(cs, radix, lo, (lo + hi) \div 2),
                     BnPow(radix, hi - ((lo + hi) \div 2))),
               DigitsValue(cs, radix, ((lo + hi) \div 2) + 1, hi))

\* the value of the decimal digits cs[i..j-1], which grows no further beyond
\* 9999
RECURSIVE SmallValue(_, _, _, _)
SmallValue(cs, i, j, acc) ==
    IF i >= j \/ acc > 9999 THEN acc
    ELSE SmallValue(cs, i + 1, j, 10 * acc + (cs[i] - 48))

\* s * D * 10^x exactly, or as a quotient to be rounded; P is 10^|x|
DecimalExact(s, D, x, P) ==
    IF x >= 0 THEN Exact(s, BnMul(D, P), 0, FALSE) ELSE Quotient(s, D, P, 0)

\* the double nearest to s * D * 10^x for a natural D of n digits
DecimalToNumber(s, D, n, x) ==
    IF D = <<>> THEN Zero(s)
    ELSE IF x > 400 THEN Inf(s)
    ELSE IF n + x < -400 THEN Zero(s)
    ELSE Signed(RoundedOf(DecimalExact(s, D, x, BnPow(10, Abs(x)))), s)

\* what a literal denotes: nothing (ok is FALSE), an infinity, or the digits
\* ds to the base radix times 10^x, with the sign s
NoLiteral == [ok |-> FALSE, inf |-> FALSE, s |-> 1, ds |-> <<>>, radix |-> 10, x |-> 0]

InfinityLiteral(s) == [NoLiteral EXCEPT !.ok = TRUE, !.inf = TRUE, !.s = s]

Literal(s, ds, radix, x) ==
    [ok |-> TRUE, inf |-> FALSE, s |-> s, ds |-> ds, radix |-> radix, x |-> x]

LiteralValue(p) ==
    IF ~p.ok THEN NaN
    ELSE IF p.inf THEN Inf(p.s)
    ELSE DecimalToNumber(p.s, DigitsValue(p.ds, p.radix, 1, Len(p.ds)), Len(p.ds), p.x)

\* the exponent written by the digits cs[c..d-1] after their sign
ExponentValue(cs, c, d) ==
    IF c = 0 THEN 0
    ELSE (IF cs[c - 1] = 45 THEN -1 ELSE 1) * SmallValue(cs, c, d, 0)

\* digits, point, digits and exponent of a literal: a is the end of the
\* digits before the point, b the end of those after it, c the start and d
\* the end of the digits of the exponent (c = 0 when there is none)
DecimalParts(s, cs, i, a, b, c, d) ==
    IF (a = i /\ b <= a + 1) \/ d # Len(cs) + 1 \/ (c # 0 /\ d = c) THEN NoLiteral
    ELSE Literal(s, SubSeq(cs, i, a - 1) \o SubSeq(cs, a + 1, b - 1), 10,
                 ExponentValue(cs, c, d) - (IF b > a THEN b - a - 1 ELSE 0))

\* the start of the digits of the exponent part at b, or 0
ExponentStart(cs, b) ==
    IF b <= Len(cs) /\ cs[b] \in {69, 101}
    THEN (IF b + 1 <= Len(cs) /\ cs[b + 1] \in {43, 45} THEN b + 2 ELSE b + 1)
    ELSE 0

DecimalExponentAt(s, cs, i, a, b, c) ==
    DecimalParts(s, cs, i, a, b, c, IF c = 0 THEN b ELSE DigitsEnd(cs, c))

DecimalExponent(s, cs, i, a, b) ==
    DecimalExponentAt(s, cs, i, a, b, ExponentStart(cs, b))

\* the end of the fraction that starts at a, if any
FractionEnd(cs, a) ==
    IF a <= Len(cs) /\ cs[a] = 46 THEN DigitsEnd(cs, a + 1) ELSE a

DecimalFraction(s, cs, i, a) == DecimalExponent(s, cs, i, a, FractionEnd(cs, a))

\* the literal cs[i..] after its sign s: Infinity or a decimal literal
UnsignedLiteral(s, cs, i) ==
    IF SubSeq(cs, i, Len(cs)) = TextInfinity THEN InfinityLiteral(s)
    ELSE DecimalFraction(s, cs, i, DigitsEnd(cs, i))

\* the literal 0x..., 0o... or 0b... to the base radix
RadixLiteral(cs, radix) ==
    IF Len(cs) < 3 \/ \E i \in 3..Len(cs) : DigitOf(cs[i]) >= radix THEN NoLiteral
    ELSE Literal(1, SubSeq(cs, 3, Len(cs)), radix, 0)

\* the base of a literal that starts 0x, 0o or 0b, else 0
RadixOf(cs) ==
    IF Len(cs) < 2 \/ cs[1] # 48 THEN 0
    ELSE IF cs[2] \in {88, 120} THEN 16
    ELSE IF cs[2] \in {79, 111} THEN 8
    ELSE IF cs[2] \in {66, 98} THEN 2
    ELSE 0

\* StringNumericLiteral
NumericLiteral(cs) ==
    IF cs = <<>> THEN Literal(1, <<>>, 10, 0)
    ELSE IF RadixOf(cs) # 0 THEN RadixLiteral(cs, RadixOf(cs))
    ELSE UnsignedLiteral(IF cs[1] = 45 THEN -1 ELSE 1, cs,
                         IF cs[1] \in {43, 45} THEN 2 ELSE 1)

\* ToNumber of a string
StringToNumber(cs) == LiteralValue(NumericLiteral(Trimmed(cs)))

\* the decimal digits of a natural n, as code units
RECURSIVE IntDigits(_)
IntDigits(n) == IF n < 10 THEN <<48 + n>> ELSE Append(IntDigits(n \div 10), 48 + (n % 10))

\* a lower estimate of the decimal exponent of a number in [2^b, 2^(b+1))
DecimalEstimate(b) ==
    IF b >= 0 THEN (b * 30102) \div 100000 ELSE (b * 30103) \div 100000

\* The shortest decimal that denotes a double m * 2^e: the number and the
\* halves of its distance to the next doubles above (mp) and below (mm), as
\* fractions of s; w = 1 when the double below is nearer than the one above
Interval(m, e, w) ==
    [r |-> BnShl(m, (IF e >= 0 THEN e ELSE 0) + 1 + w),
     s |-> BnShl(<<1>>, (IF e >= 0 THEN 0 ELSE 0 - e) + 1 + w),
     mp |-> BnShl(<<1>>, (IF e >= 0 THEN e ELSE 0) + w),
     mm |-> BnShl(<<1>>, IF e >= 0 THEN e ELSE 0)]

\* the interval divided by 10^k, where P is 10^|k|
ScaledBy(st, k, P) ==
    [f \in {"r", "s", "mp", "mm"} |->
        IF (k >= 0) = (f = "s") THEN BnMul(st[f], P) ELSE st[f]]

Scaled(st, k) == ScaledBy(st, k, BnPow(10, Abs(k)))

\* c <= 0, or c < 0 when the ends do not belong to the interval
AtMost(c, incl) == IF incl THEN c <= 0 ELSE c < 0

\* the upper end of the interval is at least 1 (above 1 when the end does
\* not belong to it)
AtLeastOne(st, incl) == AtMost(BnCmp(st.s, BnAdd(st.r, st.mp)), incl)

\* <<the interval divided by ten until it lies below 1, the exponent k>>
RECURSIVE ScaledBelowOne(_, _, _)
ScaledBelowOne(st, k, incl) ==
    IF AtLeastOne(st, incl)
    THEN ScaledBelowOne([st EXCEPT !.s = BnMulSmall(st.s, 10)], k + 1, incl)
    ELSE <<st, k>>

\* <<floor(r / s), r mod s>> for r < 10 * s
RECURSIVE DigitQuotient(_, _, _)
DigitQuotient(r, s, d) ==
    IF BnCmp(r, s) >= 0 THEN DigitQuotient(BnSub(r, s), s, d + 1) ELSE <<d, r>>

\* the last digit: d or d + 1, whichever is nearer (c compares twice the
\* remainder with s), the even one in a tie
Nearer(d, c) ==
    IF c < 0 THEN d ELSE IF c > 0 THEN d + 1 ELSE IF d % 2 = 0 THEN d ELSE d + 1

LastDigit(d, r, s, low, high) ==
    IF low /\ ~high THEN d
    ELSE IF high /\ ~low THEN d + 1
    ELSE Nearer(d, BnCmp(BnMulSmall(r, 2), s))

\* the digits after ds of the remainder r / s, with the half distances mp
\* and mm to the neighbours
RECURSIVE Generate(_, _, _, _, _, _)
GenerateLast(qr, s, mp, mm, incl, ds, low, high) ==
    IF ~low /\ ~high
    THEN Generate(qr[2], s, mp, mm, incl, Append(ds, qr[1]))
    ELSE Append(ds, LastDigit(qr[1], qr[2], s, low, high))

GenerateNext(qr, s, mp, mm, incl, ds) ==
    GenerateLast(qr, s, mp, mm, incl, ds,
                 AtMost(BnCmp(qr[2], mm), incl),
                 AtMost(BnCmp(s, BnAdd(qr[2], mp)), incl))

Generate(r, s, mp, mm, incl, ds) ==
    GenerateNext(DigitQuotient(BnMulSmall(r, 10), s, 0), s,
                 BnMulSmall(mp, 10), BnMulSmall(mm, 10), incl, ds)

\* <<the digits, the exponent n>>: the double is 0.d1d2... * 10^n
DigitsFrom(sk, incl) ==
    <<Generate(sk[1].r, sk[1].s, sk[1].mp, sk[1].mm, incl, <<>>), sk[2]>>

ShortestOf(m, e, incl, w, k) ==
    DigitsFrom(ScaledBelowOne(Scaled(Interval(m, e, w), k), k, incl), incl)

Shortest(m, e) ==
    ShortestOf(m, e, m[1] % 2 = 0,
               IF m = BnShl(<<1>>, Precision - 1) /\ e > MinExponent THEN 1 ELSE 0,
               DecimalEstimate(BnBitLen(m) + e - 1))

Codes(ds) == [i \in 1..Len(ds) |-> 48 + ds[i]]

Zeros(n) == [i \in 1..n |-> 48]

\* the exponent part "e+n" or "e-n"
ExponentText(e) == <<101, IF e < 0 THEN 45 ELSE 43>> \o IntDigits(Abs(e))

\* Number::toString of the digits ds with the decimal point after digit n
NumberText(ds, n) ==
    IF Len(ds) <= n /\ n <= 21 THEN ds \o Zeros(n - Len(ds))
    ELSE IF 0 < n /\ n <= 21 THEN SubSeq(ds, 1, n) \o <<46>> \o SubSeq(ds, n + 1, Len(ds))
    ELSE IF -6 < n /\ n <= 0 THEN <<48, 46>> \o Zeros(0 - n) \o ds
    ELSE IF Len(ds) = 1 THEN ds \o ExponentText(n - 1)
    ELSE <<ds[1], 46>> \o SubSeq(ds, 2, Len(ds)) \o ExponentText(n - 1)

ShortestText(sd) == NumberText(Codes(sd[1]), sd[2])

\* the significand brought to Precision digits, or to the least exponent
Spread(m, e, shift) == Shortest(BnShl(m, shift), e - shift)

FiniteText(x) ==
    (IF x.s < 0 THEN <<45>> ELSE <<>>)
    \o ShortestText(Spread(x.m, x.e,
                            IF Precision - BnBitLen(x.m) <= x.e - MinExponent
                            THEN Precision - BnBitLen(x.m) ELSE x.e - MinExponent))

\* ToString of a number
NumberToString(a) ==
    IF IsNaN(a) THEN TextNaN
    ELSE IF IsInf(a) THEN (IF a[2] < 0 THEN <<45>> ELSE <<>>) \o TextInfinity
    ELSE IF IsZero(a) THEN <<48>>
    ELSE FiniteText(Unpack(a))

\* a < b on strings: by code units, a proper prefix first
RECURSIVE StrLtFrom(_, _, _)
StrLtFrom(a, b, i) ==
    IF i > Len(b) THEN FALSE
    ELSE IF i > Len(a) THEN TRUE
    ELSE IF a[i] # b[i] THEN a[i] < b[i]
    ELSE StrLtFrom(a, b, i + 1)

StrLt(a, b) == StrLtFrom(a, b, 1)

----------------------------------------------------------------------------
(* The other values, and the heap: arrays and plain objects, addressed by
   their index in heap *)

Undefined == <<"undef", 0, 0>>

Null == <<"null", 0, 0>>

True == <<"bool", 1, 0>>

False == <<"bool", 0, 0>>

Ref(a) == <<"ref", a, 0>>

IsRef(v) == v[1] = "ref"

\* an array with the elements es
NewArr(es) == [t |-> "arr", e |-> es, x |-> Undefined, y |-> Undefined]

\* a plain object with the properties x and y
NewObj(px, py) == [t |-> "obj", e |-> <<>>, x |-> px, y |-> py]

\* Object.prototype.toString.call(v), without the "[object " and "]"
ClassOf(h, v) ==
    CASE v[1] = "ref" -> IF h[v[2]].t = "arr" THEN "Array" ELSE "Object"
      [] v[1] = "undef" -> "Undefined"
      [] v[1] = "null" -> "Null"
      [] v[1] = "num" -> "Number"
      [] v[1] = "bool" -> "Boolean"
      [] OTHER -> "String"

\* v == null
IsNullish(v) == v[1] \in {"undef", "null"}

\* v[i] for a value v that is neither null nor undefined (i counts from 0):
\* an element of an array, a character of a string
Index(h, v, i) ==
    IF v[1] = "ref" /\ h[v[2]].t = "arr" /\ i >= 0 /\ i < Len(h[v[2]].e)
    THEN h[v[2]].e[i + 1]
    ELSE IF v[1] = "str" /\ i >= 0 /\ i < Len(v[2])
    THEN Str(<<v[2][i + 1]>>)
    ELSE Undefined

\* v.x for a value v that is neither null nor undefined
PropX(h, v) == IF v[1] = "ref" THEN h[v[2]].x ELSE Undefined

\* v.y for a value v that is neither null nor undefined
PropY(h, v) == IF v[1] = "ref" THEN h[v[2]].y ELSE Undefined

\* v.length of an array
Length(h, v) == Len(h[v[2]].e)

----------------------------------------------------------------------------
(* The conversions and operators the functions apply to the values they read *)

\* ToString of a value; an array is its elements joined by commas, null and
\* undefined among them as nothing
RECURSIVE ToStr(_, _)
RECURSIVE Join(_, _, _)
Join(h, es, i) ==
    IF i > Len(es) THEN <<>>
    ELSE (IF i > 1 THEN <<44>> ELSE <<>>)
         \o (IF IsNullish(es[i]) THEN <<>> ELSE ToStr(h, es[i]))
         \o Join(h, es, i + 1)

ToStr(h, v) ==
    CASE v[1] = "num" -> NumberToString(v)
      [] v[1] = "undef" -> TextUndefined
      [] v[1] = "null" -> TextNull
      [] v[1] = "bool" -> IF v[2] = 1 THEN TextTrue ELSE TextFalse
      [] v[1] = "str" -> v[2]
      [] OTHER -> IF h[v[2]].t = "arr" THEN Join(h, h[v[2]].e, 1) ELSE TextObject

\* ToPrimitive: arrays and objects become strings
ToPrimitive(h, v) == IF IsRef(v) THEN Str(ToStr(h, v)) ELSE v

\* ToNumber of a primitive: undefined is NaN, null is 0
PrimToNumber(v) ==
    CASE v[1] = "num" -> v
      [] v[1] = "undef" -> NaN
      [] v[1] = "null" -> NumOf(0)
      [] v[1] = "bool" -> NumOf(v[2])
      [] OTHER -> StringToNumber(v[2])

ToNumber(h, v) == PrimToNumber(ToPrimitive(h, v))

\* the elements of p as the operators -, * and / read them
ToNumbers(h, p) == [i \in DOMAIN p |-> ToNumber(h, p[i])]

Sub(h, u, v) == NumSub(ToNumber(h, u), ToNumber(h, v))

Mul(h, u, v) == NumMul(ToNumber(h, u), ToNumber(h, v))

Div(h, u, v) == NumDiv(ToNumber(h, u), ToNumber(h, v))

\* u + v: the concatenation when either primitive is a string
PrimAdd(h, u, v) ==
    IF u[1] = "str" \/ v[1] = "str" THEN Str(ToStr(h, u) \o ToStr(h, v))
    ELSE NumAdd(PrimToNumber(u), PrimToNumber(v))

Add(h, u, v) == PrimAdd(h, ToPrimitive(h, u), ToPrimitive(h, v))

\* u < v on primitives: two strings by their code units, else as numbers
PrimLt(u, v) ==
    IF u[1] = "str" /\ v[1] = "str" THEN StrLt(u[2], v[2])
    ELSE NumLt(PrimToNumber(u), PrimToNumber(v))

\* u <= v on primitives: v < u is neither true nor undefined
PrimLe(u, v) ==
    IF u[1] = "str" /\ v[1] = "str" THEN ~StrLt(v[2], u[2])
    ELSE NumLe(PrimToNumber(u), PrimToNumber(v))

Lt(h, u, v) == PrimLt(ToPrimitive(h, u), ToPrimitive(h, v))

Le(h, u, v) == PrimLe(ToPrimitive(h, u), ToPrimitive(h, v))

Ge(h, u, v) == PrimLe(ToPrimitive(h, v), ToPrimitive(h, u))

\* u == v where v is a number: undefined and null equal no number
LooseEqNum(h, u, v) ==
    IF IsNullish(u) THEN FALSE ELSE NumEq(ToNumber(h, u), v)

\* ToBoolean of a value
Truthy(v) ==
    CASE v[1] = "num" -> ~IsNaN(v) /\ v[2] # 0
      [] v[1] = "undef" -> FALSE
      [] v[1] = "null" -> FALSE
      [] v[1] = "bool" -> v[2] = 1
      [] v[1] = "str" -> v[2] # <<>>
      [] OTHER -> TRUE

\* u || v
Or(u, v) == IF Truthy(u) THEN u ELSE v

----------------------------------------------------------------------------
(* Options *)

\* a function that returns r when called
Fn(r) == [k |-> "fn", r |-> r]

\* a supplied option value r that is not a function
Val(r) == [k |-> "val", r |-> r]

\* an option key the caller did not supply
Absent == [k |-> "absent", r |-> Undefined]

\* a user_options argument; v is "object" (a plain object with the four keys
\* as given), "array" or "primitive", and p is then the primitive value
UserOptions(v, ip, op, oi, vi) ==
    [v |-> v, p |-> Undefined, icptPoint |-> ip, onParallel |-> op,
     onLinesAlreadyIntersect |-> oi, validateIntersection |-> vi]

\* a user_options argument that is the primitive value p
PrimitiveOptions(p) ==
    [UserOptions("primitive", Absent, Absent, Absent, Absent) EXCEPT !.p = p]

\* the argument omitted
NoOptions == PrimitiveOptions(Undefined)

\* {}
EmptyOptions == UserOptions("object", Absent, Absent, Absent, Absent)

\* the opt object as declared: icptPoint: [] and the three default functions
DefaultOpt ==
    [icptPoint |-> [k |-> "fresh", r |-> Undefined],
     onParallel |-> Fn(Undefined),
     onLinesAlreadyIntersect |-> Fn(True),
     validateIntersection |-> Fn(True)]

\* user_options = user_options || {}
OrEmpty(uo) == IF uo.v = "primitive" /\ ~Truthy(uo.p) THEN EmptyOptions ELSE uo

\* Object.prototype.toString.call(user_options) === '[object Object]'
IsPlainObject(uo) == uo.v = "object"

\* the loop that copies every supplied key of user_options over opt
MergeOptions(uo) ==
    [key \in DOMAIN DefaultOpt |->
        IF uo[key].k = "absent" THEN DefaultOpt[key] ELSE uo[key]]

\* typeof f === 'function'
IsFunction(f) == f.k = "fn"

\* Object.prototype.toString.call(opt.icptPoint)
PointType(h, ip) ==
    IF ip.k = "fresh" THEN "Array"
    ELSE IF ip.k = "fn" THEN "Function"
    ELSE ClassOf(h, ip.r)

----------------------------------------------------------------------------
(* The arithmetic of the intersection *)

\* the check of the first two arguments: each is an array whose elements 0 and 1
\* are arrays
ArgumentOk(h, a) ==
    /\ ~IsNullish(a)
    /\ ClassOf(h, a) = "Array"
    /\ ClassOf(h, Index(h, a, 0)) = "Array"
    /\ ClassOf(h, Index(h, a, 1)) = "Array"

\* line.length <= 1
TooShort(h, a) == Length(h, a) <= 1

\* reading [0] or [1] of the last element throws a TypeError when it is null
LastThrows(h, a) == IsNullish(Index(h, a, Length(h, a) - 1))

\* first and last point of a line: <<x of first, y of first, x of last, y of last>>
EndPoints(h, a) ==
    LET first == Index(h, a, 0)
        last == Index(h, a, Length(h, a) - 1)
    IN  <<Index(h, first, 0), Index(h, first, 1), Index(h, last, 0), Index(h, last, 1)>>

\* (x1 - x2) * (y3 - y4) - (y1 - y2) * (x3 - x4) on the coordinates as numbers
DenomOf(p, q) ==
    NumSub(NumMul(NumSub(p[1], p[3]), NumSub(q[2], q[4])),
           NumMul(NumSub(p[2], p[4]), NumSub(q[1], q[3])))

\* denom; p is <<x1, y1, x2, y2>> and q is <<x3, y3, x4, y4>> as read from
\* the lines
Denom(h, p, q) == DenomOf(ToNumbers(h, p), ToNumbers(h, q))

\* x1 * y2 - y1 * x2 on the coordinates as numbers
Cross(p) == NumSub(NumMul(p[1], p[4]), NumMul(p[2], p[3]))

\* XNumer with the two products added instead of subtracted
XNumerAdded(h, p, q) ==
    NumAdd(NumMul(Cross(ToNumbers(h, p)), Sub(h, q[1], q[3])),
           NumMul(Sub(h, p[1], p[3]), Cross(ToNumbers(h, q))))

\* (x1 * y2 - y1 * x2) * (x3 - x4) - (x1 - x2) * (x3 * y4 - y3 * x4) on the
\* coordinates as numbers
XNumerOf(p, q) ==
    NumSub(NumMul(Cross(p), NumSub(q[1], q[3])), NumMul(NumSub(p[1], p[3]), Cross(q)))

\* xNumer
XNumer(h, p, q) == XNumerOf(ToNumbers(h, p), ToNumbers(h, q))

\* (x1 * y2 - y1 * x2) * (y3 - y4) - (y1 - y2) * (x3 * y4 - y3 * x4) on the
\* coordinates as numbers
YNumerOf(p, q) ==
    NumSub(NumMul(Cross(p), NumSub(q[2], q[4])), NumMul(NumSub(p[2], p[4]), Cross(q)))

\* yNumer
YNumer(h, p, q) == YNumerOf(ToNumbers(h, p), ToNumbers(h, q))

\* denom == 0
IsParallel(denom) == NumEq(denom, NumOf(0))

\* icptX >= x1 && icptX <= x2 && icptX >= x3 && icptX <= x4
AlreadyIntersect(h, icptX, p, q) ==
    Ge(h, icptX, p[1]) /\ Le(h, icptX, p[3]) /\ Ge(h, icptX, q[1]) /\ Le(h, icptX, q[3])

\* the test written as !hook(...): every falsy return value counts as false
ReturnsFalsy(f) == ~Truthy(f.r)

\* hook(...) === false
ReturnsFalse(f) == f.r = False

----------------------------------------------------------------------------
(* Array.prototype.sort with the comparison function of the insertion loop *)

\* the four returns of the comparison function, on the keys it computed
CompareKeys(h, ax, ay, bx, by, isXAscending, isYAscending) ==
    CASE Lt(h, ax, bx) -> IF isXAscending THEN -1 ELSE 1
      [] Lt(h, bx, ax) -> IF isXAscending THEN 1 ELSE -1
      [] Lt(h, ay, by) -> IF isYAscending THEN -1 ELSE 1
      [] Lt(h, by, ay) -> IF isYAscending THEN 1 ELSE -1
      [] OTHER -> 0

\* a[0] || a.x
KeyX(h, a) == Or(Index(h, a, 0), PropX(h, a))

\* a[1] || a.y
KeyY(h, a) == Or(Index(h, a, 1), PropY(h, a))

\* the comparison function: a and b are elements of the line
Compare(h, isXAscending, isYAscending, a, b) ==
    CompareKeys(h, KeyX(h, a), KeyY(h, a), KeyX(h, b), KeyY(h, b),
                isXAscending, isYAscending)

\* The engine sorts a copy of the elements and writes it back (TimSort, as in
\* V8's array-sort.tq). Below, w is the work array as a sequence of the
\* positions the elements have in the array before the sort, and c[a][b] is
\* the value of the comparison function on the elements of positions a and b.
\* Places in w count from 1; lengths and offsets are as in the engine.

\* the length below which a run is extended by binary insertion: n itself
\* below 64, otherwise between 32 and 64
RECURSIVE ComputeMinRunLength(_, _)
ComputeMinRunLength(n, r) ==
    IF n >= 64 THEN ComputeMinRunLength(n \div 2, IF n % 2 = 1 THEN 1 ELSE r)
    ELSE n + r

\* the end (exclusive) of the run that starts before idx: ascending, or
\* strictly descending; idx is the next place to compare with its predecessor
RECURSIVE RunLength(_, _, _, _, _)

\* the run goes on from mid when its end before mid is mid
RunEnd(c, w, desc, mid, high, end) ==
    IF end < mid THEN end ELSE RunLength(c, w, desc, mid, high)

RunLength(c, w, desc, idx, high) ==
    IF idx >= high THEN high
    ELSE IF idx + 1 = high
         THEN IF desc = (c[w[idx]][w[idx - 1]] < 0) THEN high ELSE idx
    ELSE RunEnd(c, w, desc, idx + ((high - idx) \div 2), high,
                RunLength(c, w, desc, idx, idx + ((high - idx) \div 2)))

\* w with the places low..high-1 in reverse order
RECURSIVE Reversed(_, _, _)
Reversed(w, low, high) ==
    IF low >= high THEN <<>>
    ELSE IF low + 1 = high THEN <<w[low]>>
    ELSE Reversed(w, low + ((high - low) \div 2), high)
             \o Reversed(w, low, low + ((high - low) \div 2))

ReverseRange(w, low, high) ==
    SubSeq(w, 1, low - 1) \o Reversed(w, low, high) \o SubSeq(w, high, Len(w))

\* the run from low on is reversed when it is descending
MakeRun(w, low, desc, end) ==
    [w |-> IF desc THEN ReverseRange(w, low, end) ELSE w, n |-> end - low]

\* the run that starts at low, within low..high-1, and its length
CountAndMakeRun(c, w, low, high) ==
    IF low + 1 = high THEN [w |-> w, n |-> 1]
    ELSE MakeRun(w, low, c[w[low + 1]][w[low]] < 0,
                 RunLength(c, w, c[w[low + 1]][w[low]] < 0, low + 2, high))

\* binary search of the place of pivot in the sorted places left..right-1
RECURSIVE InsertionPlace(_, _, _, _, _)
InsertionPlace(c, w, pivot, left, right) ==
    IF left >= right THEN left
    ELSE IF c[pivot][w[left + ((right - left) \div 2)]] < 0
         THEN InsertionPlace(c, w, pivot, left, left + ((right - left) \div 2))
         ELSE InsertionPlace(c, w, pivot, left + ((right - left) \div 2) + 1, right)

\* w with w[start] moved to the place left <= start
MoveTo(w, start, left) ==
    SubSeq(w, 1, left - 1) \o <<w[start]>> \o SubSeq(w, left, start - 1)
        \o SubSeq(w, start + 1, Len(w))

\* the places start..high-1 inserted one by one into the sorted places
\* low..start-1
RECURSIVE InsertFrom(_, _, _, _, _)
InsertFrom(c, w, low, start, high) ==
    IF start >= high \/ high > Len(w) + 1 THEN w
    ELSE IF start + 1 = high
         THEN MoveTo(w, start, InsertionPlace(c, w, w[start], low, start))
    ELSE InsertFrom(c, InsertFrom(c, w, low, start, start + ((high - start) \div 2)),
                    low, start + ((high - start) \div 2), high)

BinaryInsertionSort(c, w, low, startArg, high) ==
    InsertFrom(c, w, low, IF low = startArg THEN startArg + 1 ELSE startArg, high)

\* the comparison of a gallop: of the element with the key in GallopLeft, of
\* the key with the element in GallopRight
GallopOrder(c, keyFirst, key, element) ==
    IF keyFirst THEN c[key][element] ELSE c[element][key]

\* the offsets double (1, 3, 7, ...) in the direction dir from base + hint
\* until the comparison is negative (stopNeg) or is not, or maxOfs is reached:
\* <<lastOfs, offset>>
RECURSIVE GallopStep(_, _, _, _, _, _, _, _, _, _)
GallopStep(c, arr, key, from, dir, keyFirst, stopNeg, lastOfs, offset, maxOfs) ==
    IF offset >= maxOfs THEN <<lastOfs, offset>>
    ELSE IF (GallopOrder(c, keyFirst, key, arr[from + dir * offset]) < 0) = stopNeg
         THEN <<lastOfs, offset>>
         ELSE GallopStep(c, arr, key, from, dir, keyFirst, stopNeg,
                         offset, 2 * offset + 1, maxOfs)

Smaller(a, b) == IF a < b THEN a ELSE b

Greater(a, b) == IF a > b THEN a ELSE b

\* the offsets of a gallop to the right, relative to base
GallopedRight(ofs, maxOfs, hint) == <<ofs[1] + hint, Smaller(ofs[2], maxOfs) + hint>>

\* the offsets of a gallop to the left, relative to base
GallopedLeft(ofs, maxOfs, hint) == <<hint - Smaller(ofs[2], maxOfs), hint - ofs[1]>>

\* the binary search that ends a gallop, between lastOfs and offset
RECURSIVE GallopSearch(_, _, _, _, _, _, _)
GallopSearch(c, arr, key, base, keyFirst, lastOfs, offset) ==
    IF lastOfs >= offset THEN offset
    ELSE IF (GallopOrder(c, keyFirst, key, arr[base + lastOfs + ((offset - lastOfs) \div 2)]) < 0)
            = keyFirst
         THEN GallopSearch(c, arr, key, base, keyFirst,
                           lastOfs, lastOfs + ((offset - lastOfs) \div 2))
         ELSE GallopSearch(c, arr, key, base, keyFirst,
                           lastOfs + ((offset - lastOfs) \div 2) + 1, offset)

GallopFound(c, arr, key, base, keyFirst, ofs) ==
    GallopSearch(c, arr, key, base, keyFirst, ofs[1] + 1, ofs[2])

\* the offset k in the run arr[base..base+length-1] with
\* arr[base + k - 1] < key <= arr[base + k], searched from base + hint
GallopLeft(c, arr, key, base, length, hint) ==
    IF c[arr[base + hint]][key] < 0
    THEN GallopFound(c, arr, key, base, FALSE,
             GallopedRight(GallopStep(c, arr, key, base + hint, 1, FALSE, FALSE,
                                      0, 1, length - hint),
                           length - hint, hint))
    ELSE GallopFound(c, arr, key, base, FALSE,
             GallopedLeft(GallopStep(c, arr, key, base + hint, -1, FALSE, TRUE,
                                     0, 1, hint + 1),
                          hint + 1, hint))

\* the offset k in the run arr[base..base+length-1] with
\* arr[base + k - 1] <= key < arr[base + k], searched from base + hint
GallopRight(c, arr, key, base, length, hint) ==
    IF c[key][arr[base + hint]] < 0
    THEN GallopFound(c, arr, key, base, TRUE,
             GallopedLeft(GallopStep(c, arr, key, base + hint, -1, TRUE, FALSE,
                                     0, 1, hint + 1),
                          hint + 1, hint))
    ELSE GallopFound(c, arr, key, base, TRUE,
             GallopedRight(GallopStep(c, arr, key, base + hint, 1, TRUE, TRUE,
                                      0, 1, length - hint),
                           length - hint, hint))

\* w with n elements of src, from its place from on, at the places dest..
Copy(src, from, w, dest, n) ==
    SubSeq(w, 1, dest - 1) \o SubSeq(src, from, from + n - 1)
        \o SubSeq(w, dest + n, Len(w))

\* the wins after which a merge starts or goes on galloping
kMinGallopWins == 7

\* A merge in progress is a record m: the work array w, the place dest to
\* write next, the cursor cT in the copied run tmp and the cursor cW in the
\* run left in w, the lengths la and lb left of the runs A and B, the wins nA
\* and nB, minGallop, the place base where run A starts, and the loop that
\* goes on: "straight" (one element at a time), "gallop" (the first round of
\* galloping), "gallopOn" (a later round) or "done".

Merged(w, minGallop) == [w |-> w, minGallop |-> minGallop, loop |-> "done"]

Merging(w, dest, cT, cW, la, lb, minGallop, base) ==
    [w |-> w, dest |-> dest, cT |-> cT, cW |-> cW, la |-> la, lb |-> lb,
     nA |-> 0, nB |-> 0, minGallop |-> minGallop, base |-> base,
     loop |-> "straight"]

\* MergeLow, label Succeed: the rest of run A follows
SucceedLow(tmp, m) == Merged(Copy(tmp, m.cT, m.w, m.dest, m.la), m.minGallop)

\* MergeLow, label CopyB: the rest of run B, then the last element of run A
CopyB(tmp, m) ==
    Merged([Copy(m.w, m.cW, m.w, m.dest, m.lb) EXCEPT ![m.dest + m.lb] = tmp[m.cT]],
           m.minGallop)

\* every round but the one that leaves the galloping places an element, and
\* a round of galloping comes before that one: the rounds of a merge
MaxRounds(m) == 2 * (m.la + m.lb) + 2

\* workArray[dest++] = workArray[cursorB++]; --lengthB
PutB(m) ==
    [m EXCEPT !.w[m.dest] = m.w[m.cW], !.dest = @ + 1, !.cW = @ + 1, !.lb = @ - 1]

\* workArray[dest++] = tempArray[cursorTemp++]; --lengthA
PutA(tmp, m) ==
    [m EXCEPT !.w[m.dest] = tmp[m.cT], !.dest = @ + 1, !.cT = @ + 1, !.la = @ - 1]

\* nofWinsA = n elements of run A at once
PutManyA(tmp, m, n) ==
    [m EXCEPT !.w = Copy(tmp, m.cT, m.w, m.dest, n), !.dest = @ + n, !.cT = @ + n,
              !.la = @ - n, !.nA = n]

\* nofWinsB = n elements of run B at once
PutManyB(m, n) ==
    [m EXCEPT !.w = Copy(m.w, m.cW, m.w, m.dest, n), !.dest = @ + n, !.cW = @ + n,
              !.lb = @ - n, !.nB = n]

\* a round of galloping, after its one element of run A
MergeLowAfterOneA(tmp, m) ==
    IF m.la = 1 THEN CopyB(tmp, m) ELSE [m EXCEPT !.loop = "gallopOn"]

\* a round of galloping, after the elements of run B before the head of run A
MergeLowAfterB(tmp, m) ==
    IF m.nB > 0 /\ m.lb = 0 THEN SucceedLow(tmp, m)
    ELSE MergeLowAfterOneA(tmp, PutA(tmp, m))

\* a round of galloping, after its one element of run B
MergeLowAfterOneB(c, tmp, m) ==
    IF m.lb = 0 THEN SucceedLow(tmp, m)
    ELSE MergeLowAfterB(tmp,
             PutManyB(m, GallopLeft(c, m.w, tmp[m.cT], m.cW, m.lb, 0)))

\* a round of galloping, after the elements of run A before the head of run B
MergeLowAfterA(c, tmp, m) ==
    IF m.nA > 0 /\ m.la = 1 THEN CopyB(tmp, m)
    ELSE IF m.nA > 0 /\ m.la = 0 THEN SucceedLow(tmp, m)
    ELSE MergeLowAfterOneB(c, tmp, PutB(m))

\* the galloping loop, which goes on while either run wins kMinGallopWins
\* times in a row; leaving it costs one more win before the next galloping
MergeLowGalloping(c, tmp, m, firstIteration) ==
    IF m.nA >= kMinGallopWins \/ m.nB >= kMinGallopWins \/ firstIteration
    THEN MergeLowAfterA(c, tmp,
             PutManyA(tmp, [m EXCEPT !.minGallop = Greater(1, @ - 1)],
                      GallopRight(c, tmp, m.w[m.cW], m.cT, m.la, 0)))
    ELSE [m EXCEPT !.minGallop = @ + 1, !.nA = 0, !.nB = 0, !.loop = "straight"]

\* the straightforward loop, after an element of run B
MergeLowTookB(tmp, m) ==
    IF m.lb = 0 THEN SucceedLow(tmp, m)
    ELSE IF m.nB >= m.minGallop
         THEN [m EXCEPT !.minGallop = @ + 1, !.loop = "gallop"]
         ELSE m

\* the straightforward loop, after an element of run A
MergeLowTookA(tmp, m) ==
    IF m.la = 1 THEN CopyB(tmp, m)
    ELSE IF m.nA >= m.minGallop
         THEN [m EXCEPT !.minGallop = @ + 1, !.loop = "gallop"]
         ELSE m

\* the straightforward loop: the head of run B goes first when it compares
\* below the head of run A, and counts as a win of its run
MergeLowOneByOne(c, tmp, m) ==
    IF c[m.w[m.cW]][tmp[m.cT]] < 0
    THEN MergeLowTookB(tmp, [PutB(m) EXCEPT !.nB = @ + 1, !.nA = 0])
    ELSE MergeLowTookA(tmp, [PutA(tmp, m) EXCEPT !.nA = @ + 1, !.nB = 0])

\* one round of the loop the merge is in
MergeLowRound(c, tmp, m) ==
    IF m.loop = "straight" THEN MergeLowOneByOne(c, tmp, m)
    ELSE MergeLowGalloping(c, tmp, m, m.loop = "gallop")

\* the rounds of the merge until it is done; rounds bounds their number
RECURSIVE MergeLowRounds(_, _, _, _)
MergeLowRounds(c, tmp, m, rounds) ==
    IF m.loop = "done" \/ rounds = 0 THEN m
    ELSE IF rounds = 1 THEN MergeLowRound(c, tmp, m)
    ELSE MergeLowRounds(c, tmp, MergeLowRounds(c, tmp, m, rounds \div 2),
                        rounds - (rounds \div 2))

\* after the first element of run B is in its place
MergeLowStart(c, tmp, m) ==
    IF m.lb = 0 THEN SucceedLow(tmp, m)
    ELSE IF m.la = 1 THEN CopyB(tmp, m)
    ELSE MergeLowRounds(c, tmp, m, MaxRounds(m))

\* the merge of two adjacent runs, lengthA <= lengthB, from the left: run A
\* is copied out, and the first element of run B is known to go first
MergeLow(c, w, minGallop, baseA, lengthA, baseB, lengthB) ==
    MergeLowStart(c, SubSeq(w, baseA, baseA + lengthA - 1),
        PutB(Merging(w, baseA, 1, baseB, lengthA, lengthB, minGallop, baseA)))

\* MergeHigh, label Succeed: the rest of run B goes before
SucceedHigh(tmp, m) ==
    Merged(Copy(tmp, 1, m.w, m.dest - (m.lb - 1), m.lb), m.minGallop)

\* MergeHigh, label CopyA: the rest of run A, and before it the first element
\* of run B
CopyA(tmp, m) ==
    Merged([Copy(m.w, m.cW - m.la + 1, m.w, m.dest - m.la + 1, m.la)
               EXCEPT ![m.dest - m.la] = tmp[m.cT]],
           m.minGallop)

\* workArray[dest--] = workArray[cursorA--]; --lengthA
PutLastA(m) ==
    [m EXCEPT !.w[m.dest] = m.w[m.cW], !.dest = @ - 1, !.cW = @ - 1, !.la = @ - 1]

\* workArray[dest--] = tempArray[cursorTemp--]; --lengthB
PutLastB(tmp, m) ==
    [m EXCEPT !.w[m.dest] = tmp[m.cT], !.dest = @ - 1, !.cT = @ - 1, !.lb = @ - 1]

\* nofWinsA = n elements of the end of run A at once
PutManyLastA(m, n) ==
    [m EXCEPT !.w = Copy(m.w, m.cW - n + 1, m.w, m.dest - n + 1, n),
              !.dest = @ - n, !.cW = @ - n, !.la = @ - n, !.nA = n]

\* nofWinsB = n elements of the end of run B at once
PutManyLastB(tmp, m, n) ==
    [m EXCEPT !.w = Copy(tmp, m.cT - n + 1, m.w, m.dest - n + 1, n),
              !.dest = @ - n, !.cT = @ - n, !.lb = @ - n, !.nB = n]

\* a round of galloping, after its one element of run A
MergeHighAfterOneA(tmp, m) ==
    IF m.la = 0 THEN SucceedHigh(tmp, m) ELSE [m EXCEPT !.loop = "gallopOn"]

\* a round of galloping, after the elements of run B behind the last of run A
MergeHighAfterB(tmp, m) ==
    IF m.nB > 0 /\ m.lb = 1 THEN CopyA(tmp, m)
    ELSE IF m.nB > 0 /\ m.lb = 0 THEN SucceedHigh(tmp, m)
    ELSE MergeHighAfterOneA(tmp, PutLastA(m))

\* a round of galloping, after its one element of run B
MergeHighAfterOneB(c, tmp, m) ==
    IF m.lb = 1 THEN CopyA(tmp, m)
    ELSE MergeHighAfterB(tmp,
             PutManyLastB(tmp, m,
                 m.lb - GallopLeft(c, tmp, m.w[m.cW], 1, m.lb, m.lb - 1)))

\* a round of galloping, after the elements of run A behind the last of run B
MergeHighAfterA(c, tmp, m) ==
    IF m.nA > 0 /\ m.la = 0 THEN SucceedHigh(tmp, m)
    ELSE MergeHighAfterOneB(c, tmp, PutLastB(tmp, m))

MergeHighGalloping(c, tmp, m, firstIteration) ==
    IF m.nA >= kMinGallopWins \/ m.nB >= kMinGallopWins \/ firstIteration
    THEN MergeHighAfterA(c, tmp,
             PutManyLastA([m EXCEPT !.minGallop = Greater(1, @ - 1)],
                 m.la - GallopRight(c, m.w, tmp[m.cT], m.base, m.la, m.la - 1)))
    ELSE [m EXCEPT !.minGallop = @ + 1, !.nA = 0, !.nB = 0, !.loop = "straight"]

\* the straightforward loop, after an element of run A
MergeHighTookA(tmp, m) ==
    IF m.la = 0 THEN SucceedHigh(tmp, m)
    ELSE IF m.nA >= m.minGallop
         THEN [m EXCEPT !.minGallop = @ + 1, !.loop = "gallop"]
         ELSE m

\* the straightforward loop, after an element of run B
MergeHighTookB(tmp, m) ==
    IF m.lb = 1 THEN CopyA(tmp, m)
    ELSE IF m.nB >= m.minGallop
         THEN [m EXCEPT !.minGallop = @ + 1, !.loop = "gallop"]
         ELSE m

\* the straightforward loop: the last of run A goes last when the last of
\* run B compares below it, and counts as a win of its run
MergeHighOneByOne(c, tmp, m) ==
    IF c[tmp[m.cT]][m.w[m.cW]] < 0
    THEN MergeHighTookA(tmp, [PutLastA(m) EXCEPT !.nA = @ + 1, !.nB = 0])
    ELSE MergeHighTookB(tmp, [PutLastB(tmp, m) EXCEPT !.nB = @ + 1, !.nA = 0])

\* one round of the loop the merge is in
MergeHighRound(c, tmp, m) ==
    IF m.loop = "straight" THEN MergeHighOneByOne(c, tmp, m)
    ELSE MergeHighGalloping(c, tmp, m, m.loop = "gallop")

\* the rounds of the merge until it is done; rounds bounds their number
RECURSIVE MergeHighRounds(_, _, _, _)
MergeHighRounds(c, tmp, m, rounds) ==
    IF m.loop = "done" \/ rounds = 0 THEN m
    ELSE IF rounds = 1 THEN MergeHighRound(c, tmp, m)
    ELSE MergeHighRounds(c, tmp, MergeHighRounds(c, tmp, m, rounds \div 2),
                         rounds - (rounds \div 2))

\* after the last element of run A is in its place
MergeHighStart(c, tmp, m) ==
    IF m.la = 0 THEN SucceedHigh(tmp, m)
    ELSE IF m.lb = 1 THEN CopyA(tmp, m)
    ELSE MergeHighRounds(c, tmp, m, MaxRounds(m))

\* the merge of two adjacent runs, lengthA > lengthB, from the right: run B
\* is copied out, and the last element of run A is known to go last
MergeHigh(c, w, minGallop, baseA, lengthA, baseB, lengthB) ==
    MergeHighStart(c, SubSeq(w, baseB, baseB + lengthB - 1),
        PutLastA(Merging(w, baseB + lengthB - 1, lengthB, baseA + lengthA - 1,
                         lengthA, lengthB, minGallop, baseA)))

\* The state of a sort is the work array w, the stack of pending runs, each
\* <<base, length>>, and minGallop.

SortState(w, runs, minGallop) == [w |-> w, runs |-> runs, minGallop |-> minGallop]

\* the state after a merge
AfterMerge(runs, merged) == SortState(merged.w, runs, merged.minGallop)

\* the elements of run B that go behind the last of run A stay as well
MergeTrimmedB(c, st, runs, baseA, lengthA, baseB, lengthB) ==
    IF lengthB = 0 THEN SortState(st.w, runs, st.minGallop)
    ELSE IF lengthA <= lengthB
         THEN AfterMerge(runs, MergeLow(c, st.w, st.minGallop, baseA, lengthA, baseB, lengthB))
         ELSE AfterMerge(runs, MergeHigh(c, st.w, st.minGallop, baseA, lengthA, baseB, lengthB))

\* the k elements of run A that go before the first of run B stay where they
\* are
MergeTrimmedA(c, st, runs, baseA, lengthA, baseB, lengthB) ==
    IF lengthA = 0 THEN SortState(st.w, runs, st.minGallop)
    ELSE MergeTrimmedB(c, st, runs, baseA, lengthA, baseB,
             GallopLeft(c, st.w, st.w[baseA + lengthA - 1], baseB, lengthB, lengthB - 1))

MergeTrim(c, st, runs, baseA, lengthA, baseB, lengthB, k) ==
    MergeTrimmedA(c, st, runs, baseA + k, lengthA - k, baseB, lengthB)

\* the stack with the runs i and i + 1 made one
RunsMerged(runs, i) ==
    SubSeq(runs, 1, i - 1) \o <<<<runs[i][1], runs[i][2] + runs[i + 1][2]>>>>
        \o SubSeq(runs, i + 2, Len(runs))

\* the merge of the pending runs i and i + 1
MergeAt(c, st, i) ==
    MergeTrim(c, st, RunsMerged(st.runs, i),
              st.runs[i][1], st.runs[i][2], st.runs[i + 1][1], st.runs[i + 1][2],
              GallopRight(c, st.w, st.w[st.runs[i + 1][1]],
                          st.runs[i][1], st.runs[i][2], 0))

\* the run i is shorter than the one two below it on the stack by more than
\* the length of the run between them
RunInvariantEstablished(runs, i) ==
    IF i < 3 THEN TRUE ELSE runs[i - 2][2] > runs[i - 1][2] + runs[i][2]

\* the lengths on the stack are made to decrease, and each to exceed the sum
\* of the two above it
RECURSIVE MergeCollapse(_, _)
MergeCollapse(c, st) ==
    IF Len(st.runs) < 2 THEN st
    ELSE IF ~RunInvariantEstablished(st.runs, Len(st.runs))
            \/ ~RunInvariantEstablished(st.runs, Len(st.runs) - 1)
         THEN IF st.runs[Len(st.runs) - 2][2] < st.runs[Len(st.runs)][2]
              THEN MergeCollapse(c, MergeAt(c, st, Len(st.runs) - 2))
              ELSE MergeCollapse(c, MergeAt(c, st, Len(st.runs) - 1))
    ELSE IF st.runs[Len(st.runs) - 1][2] <= st.runs[Len(st.runs)][2]
         THEN MergeCollapse(c, MergeAt(c, st, Len(st.runs) - 1))
         ELSE st

\* all pending runs are merged
RECURSIVE MergeForceCollapse(_, _)
MergeForceCollapse(c, st) ==
    IF Len(st.runs) < 2 THEN st
    ELSE IF Len(st.runs) > 2 /\ st.runs[Len(st.runs) - 2][2] < st.runs[Len(st.runs)][2]
         THEN MergeForceCollapse(c, MergeAt(c, st, Len(st.runs) - 2))
         ELSE MergeForceCollapse(c, MergeAt(c, st, Len(st.runs) - 1))

\* a run shorter than minRunLength is extended to it, or to what remains
ExtendedRun(c, run, low, forced) ==
    IF run.n < forced
    THEN [w |-> BinaryInsertionSort(c, run.w, low, low + run.n, low + forced),
          n |-> forced]
    ELSE run

\* the run is pushed on the stack of pending runs
PushRun(st, run, low) ==
    SortState(run.w, Append(st.runs, <<low, run.n>>), st.minGallop)

\* the loop over the runs of the work array, from low on
RECURSIVE SortRuns(_, _, _, _)
SortRunFound(c, st, low, minRunLength, run) ==
    SortRuns(c, MergeCollapse(c, PushRun(st, run, low)), low + run.n, minRunLength)

SortRuns(c, st, low, minRunLength) ==
    IF low > Len(st.w) THEN MergeForceCollapse(c, st)
    ELSE SortRunFound(c, st, low, minRunLength,
             ExtendedRun(c, CountAndMakeRun(c, st.w, low, Len(st.w) + 1), low,
                         Smaller(minRunLength, Len(st.w) + 1 - low)))

\* the places low..high in their order
RECURSIVE Places(_, _)
Places(low, high) ==
    IF low > high THEN <<>>
    ELSE IF low = high THEN <<low>>
    ELSE Places(low, low + ((high - low) \div 2))
             \o Places(low + ((high - low) \div 2) + 1, high)

\* the work array of n >= 2 elements sorted: the places of the elements
\* before the sort, in their order after it
ArrayTimSortImpl(c, n) ==
    SortRuns(c, SortState(Places(1, n), <<>>, kMinGallopWins), 1,
             ComputeMinRunLength(n, 0)).w

\* the values of the comparison function on the elements of s
Comparisons(h, xa, ya, s) ==
    [a \in 1..Len(s) |-> [b \in 1..Len(s) |-> Compare(h, xa, ya, s[a], s[b])]]

RECURSIVE Sorted(_, _, _, _)
Sorted(s, w, low, high) ==
    IF low > high THEN <<>>
    ELSE IF low = high THEN <<s[w[low]]>>
    ELSE Sorted(s, w, low, low + ((high - low) \div 2))
             \o Sorted(s, w, low + ((high - low) \div 2) + 1, high)

\* line.sort(function (a, b) {...})
SortLine(h, xa, ya, s) ==
    IF Len(s) < 2 THEN s
    ELSE Sorted(s, ArrayTimSortImpl(Comparisons(h, xa, ya, s), Len(s)), 1, Len(s))

----------------------------------------------------------------------------
(* Inserting icptPoint into one line *)

\* The scan for a point that already equals the intersection, over the
\* elements low..high: the index of the first such element, 0 when there is
\* none, -1 when reading an element throws a TypeError before one is found.
\* The elements after the middle are looked at when the scan of those up to
\* it (found) has come to its end.

RECURSIVE FindExistingByX(_, _, _, _, _, _)

FindExistingByXOn(h, s, icptX, icptY, mid, high, found) ==
    IF found # 0 THEN found ELSE FindExistingByX(h, s, icptX, icptY, mid + 1, high)

\* the scan with the test on x alone
FindExistingByX(h, s, icptX, icptY, low, high) ==
    IF low > high THEN 0
    ELSE IF low = high
         THEN IF IsNullish(s[low]) THEN -1
              ELSE IF LooseEqNum(h, Index(h, s[low], 0), icptX)
                   THEN low
                   ELSE 0
    ELSE FindExistingByXOn(h, s, icptX, icptY, low + ((high - low) \div 2), high,
             FindExistingByX(h, s, icptX, icptY, low, low + ((high - low) \div 2)))

RECURSIVE FindExisting(_, _, _, _, _, _)

FindExistingOn(h, s, icptX, icptY, mid, high, found) ==
    IF found # 0 THEN found ELSE FindExisting(h, s, icptX, icptY, mid + 1, high)

FindExisting(h, s, icptX, icptY, low, high) ==
    IF low > high THEN 0
    ELSE IF low = high
         THEN IF IsNullish(s[low]) THEN -1
              ELSE IF LooseEqNum(h, Index(h, s[low], 0), icptX)
                      /\ LooseEqNum(h, Index(h, s[low], 1), icptY)
                   THEN low
                   ELSE 0
    ELSE FindExistingOn(h, s, icptX, icptY, low + ((high - low) \div 2), high,
             FindExisting(h, s, icptX, icptY, low, low + ((high - low) \div 2)))

\* line.push(opt.icptPoint) with no sort after it
PushOnly(h, s, point) == Append(s, point)

\* line.push(opt.icptPoint) followed by line.sort(...)
PushAndSort(h, s, point) ==
    LET isXAscending == Le(h, Index(h, s[1], 0), Index(h, s[Len(s)], 0))
        isYAscending == Le(h, Index(h, s[1], 1), Index(h, s[Len(s)], 1))
    IN  SortLine(h, isXAscending, isYAscending, Append(s, point))

\* the round that overwrites the last element when the point already exists
InsertPointOverLast(h, s, point, icptX, icptY) ==
    LET i == FindExisting(h, s, icptX, icptY, 1, Len(s))
    IN  IF i = -1 THEN <<>>
        ELSE IF i > 0 THEN [s EXCEPT ![Len(s)] = point]
        ELSE PushAndSort(h, s, point)

\* one round of the loop over _lines: the elements of the line afterwards
\* (<<>> stands for a TypeError; a line is never empty)
InsertPoint(h, s, point, icptX, icptY) ==
    LET i == FindExisting(h, s, icptX, icptY, 1, Len(s))
    IN  IF i = -1 THEN <<>>
        ELSE IF i > 0 THEN [s EXCEPT ![i] = point]
        ELSE PushAndSort(h, s, point)

----------------------------------------------------------------------------
(* getLineIntersectionData *)

\* a call of one of the hooks, with its arguments, or the insertion into line n
Event(name, px, py) == [h |-> name, x |-> px, y |-> py]

\* what a call leaves behind: the heap, how it ended ("result", "undefined"
\* for a return without value, "throw" for a TypeError), the returned object
\* and the hooks it called, in order
Outcome(h, out, ix, iy, l1, l2, log) ==
    [heap |-> h, out |-> out, icptX |-> ix, icptY |-> iy,
     line1_data |-> l1, line2_data |-> l2, log |-> log]

NoResult(h, log) == Outcome(h, "undefined", Undefined, Undefined, Undefined, Undefined, log)

Thrown(h, log) == Outcome(h, "throw", Undefined, Undefined, Undefined, Undefined, log)

\* "Inserting icptPoint into both lines": the loop over _lines, from line idx
\* on; a TypeError leaves the loop
RECURSIVE InsertIntoLines(_, _, _, _, _, _, _)
InsertIntoLines(h, point, lines, idx, icptX, icptY, log) ==
    IF idx > Len(lines)
    THEN Outcome(h, "result", icptX, icptY, Ref(lines[1]), Ref(lines[2]), log)
    ELSE LET s == InsertPoint(h, h[lines[idx]].e, point, icptX, icptY)
         IN  IF s = <<>> THEN Thrown(h, log)
             ELSE InsertIntoLines([h EXCEPT ![lines[idx]].e = s], point, lines, idx + 1,
                                  icptX, icptY,
                                  Append(log, Event("insert", NumOf(idx), Undefined)))

\* the materialisation of opt.icptPoint: a new pair, or x and y written into
\* the caller's object
Materialize(h, opt, line1, line2, icptX, icptY, log) ==
    LET point_type == PointType(h, opt.icptPoint)
    IN  IF point_type \notin {"Array", "Object"} THEN NoResult(h, log)
        ELSE InsertIntoLines(
                IF point_type = "Array"
                THEN Append(h, NewArr(<<icptX, icptY>>))
                ELSE [h EXCEPT ![opt.icptPoint.r[2]].x = icptX,
                               ![opt.icptPoint.r[2]].y = icptY],
                IF point_type = "Array" THEN Ref(Len(h) + 1) ELSE opt.icptPoint.r,
                <<line1, line2>>, 1, icptX, icptY, log)

\* Validate as an else-branch of the already-intersecting check: skipped when
\* that hook was called
ValidateUnlessAlreadyChecked(h, opt, line1, line2, icptX, icptY, log) ==
    IF log = <<>> /\ IsFunction(opt.validateIntersection)
                  /\ ReturnsFalse(opt.validateIntersection)
    THEN NoResult(h, Append(log, Event("validateIntersection", icptX, icptY)))
    ELSE Materialize(h, opt, line1, line2, icptX, icptY,
                     IF log = <<>> /\ IsFunction(opt.validateIntersection)
                     THEN Append(log, Event("validateIntersection", icptX, icptY))
                     ELSE log)

\* validateIntersection and what follows it
Validate(h, opt, line1, line2, icptX, icptY, log) ==
    IF IsFunction(opt.validateIntersection) /\ ReturnsFalse(opt.validateIntersection)
    THEN NoResult(h, Append(log, Event("validateIntersection", icptX, icptY)))
    ELSE Materialize(h, opt, line1, line2, icptX, icptY,
                     IF IsFunction(opt.validateIntersection)
                     THEN Append(log, Event("validateIntersection", icptX, icptY))
                     ELSE log)

\* the already-intersecting check without its return: a false from the hook
\* is ignored
CheckAlreadyIntersectGoesOn(h, opt, line1, line2, icptX, icptY, already) ==
    Validate(h, opt, line1, line2, icptX, icptY,
             IF already /\ IsFunction(opt.onLinesAlreadyIntersect)
             THEN <<Event("onLinesAlreadyIntersect", icptX, icptY)>>
             ELSE <<>>)

\* the already-intersecting hook and what follows it
CheckAlreadyIntersect(h, opt, line1, line2, icptX, icptY, already) ==
    IF already /\ IsFunction(opt.onLinesAlreadyIntersect)
               /\ ReturnsFalse(opt.onLinesAlreadyIntersect)
    THEN NoResult(h, <<Event("onLinesAlreadyIntersect", icptX, icptY)>>)
    ELSE Validate(h, opt, line1, line2, icptX, icptY,
                  IF already /\ IsFunction(opt.onLinesAlreadyIntersect)
                  THEN <<Event("onLinesAlreadyIntersect", icptX, icptY)>>
                  ELSE <<>>)

\* from icptX and icptY on: the already-intersecting test and what follows
Intersection(h, opt, line1, line2, p, q, icptX, icptY) ==
    CheckAlreadyIntersect(h, opt, line1, line2, icptX, icptY,
                          AlreadyIntersect(h, icptX, p, q))

\* CheckParallel without the return that follows the call of onParallel
CheckParallelFallsThrough(h, opt, line1, line2, p, q, denom) ==
    Intersection(h, opt, line1, line2, p, q,
                 NumDiv(XNumer(h, p, q), denom), NumDiv(YNumer(h, p, q), denom))

\* the parallel case, and icptX and icptY otherwise; p and q are the end
\* points of the two lines
CheckParallel(h, opt, line1, line2, p, q, denom) ==
    IF IsParallel(denom)
    THEN NoResult(h, IF IsFunction(opt.onParallel)
                     THEN <<Event("onParallel", Undefined, Undefined)>>
                     ELSE <<>>)
    ELSE Intersection(h, opt, line1, line2, p, q,
                      NumDiv(XNumer(h, p, q), denom), NumDiv(YNumer(h, p, q), denom))

\* the computation from the determinant on; line1 and line2 are the addresses
\* of the copies
Intersect(h, opt, line1, line2, p, q) ==
    CheckParallel(h, opt, line1, line2, p, q, Denom(h, p, q))

\* line.slice(): the address of the copy is Len(h) + 1
Slice(h, a) == Append(h, NewArr(h[a[2]].e))

GetLineIntersectionData(h, line1_data, line2_data, user_options) ==
    IF ~ArgumentOk(h, line1_data) \/ ~ArgumentOk(h, line2_data)
    THEN NoResult(h, <<>>)
    ELSE IF TooShort(h, line1_data) \/ TooShort(h, line2_data)
    THEN NoResult(h, <<>>)
    ELSE IF ~IsPlainObject(OrEmpty(user_options))
    THEN NoResult(h, <<>>)
    ELSE LET opt == MergeOptions(OrEmpty(user_options))
             h1 == Slice(Slice(h, line1_data), line2_data)
             line1 == Len(h) + 1
             line2 == Len(h) + 2
         IN  IF LastThrows(h1, Ref(line1)) \/ LastThrows(h1, Ref(line2))
             THEN Thrown(h1, <<>>)
             ELSE Intersect(h1, opt, line1, line2,
                            EndPoints(h1, Ref(line1)), EndPoints(h1, Ref(line2)))

----------------------------------------------------------------------------
(* The caller: its lines, its options and the calls it has made *)

\* an element of a line as the caller wrote it: an array literal with the
\* elements e, or (isArr = FALSE) the primitive value e[1]
Pair(px, py) == [isArr |-> TRUE, e |-> <<NumOf(px), NumOf(py)>>]

ArrayOf(es) == [isArr |-> TRUE, e |-> es]

Primitive(v) == [isArr |-> FALSE, e |-> <<v>>]

\* the heap after the array literal with the elements ds was evaluated; the
\* new array is the last object of the heap
RECURSIVE AllocElements(_, _, _, _)

\* the elements before and after the middle, evaluated in their order
AllocJoin(left, right) == [es |-> left.es \o right.es, h |-> right.h]

AllocNext(ds, mid, high, left) ==
    AllocJoin(left, AllocElements(left.h, ds, mid + 1, high))

\* the heap h after the elements low..high of ds were evaluated, and their
\* values es: an array literal is a new object, and its value the address
AllocElements(h, ds, low, high) ==
    IF low > high THEN [es |-> <<>>, h |-> h]
    ELSE IF low = high
         THEN IF ds[low].isArr
              THEN [es |-> <<Ref(Len(h) + 1)>>, h |-> Append(h, NewArr(ds[low].e))]
              ELSE [es |-> <<ds[low].e[1]>>, h |-> h]
    ELSE AllocNext(ds, low + ((high - low) \div 2), high,
                   AllocElements(h, ds, low, low + ((high - low) \div 2)))

AllocArray(es, elements) == Append(elements.h, NewArr(es \o elements.es))

AllocLine(h, ds, es) == AllocArray(es, AllocElements(h, ds, 1, Len(ds)))

\* the address of the caller's icptPoint object
PointObject == 1

\* the content of a line: every element with the object it refers to
NoObject == [t |-> "none", e |-> <<>>, x |-> Undefined, y |-> Undefined]

Content(h, v) ==
    IF IsRef(v) /\ h[v[2]].t = "arr"
    THEN [i \in 1..Len(h[v[2]].e) |->
             LET el == h[v[2]].e[i]
             IN  <<el, IF IsRef(el) THEN h[el[2]] ELSE NoObject>>]
    ELSE <<>>

\* the record of one call: arguments, outcome, and the content of the
\* argument lines before (pre) and after (post) the call
CallRecord(h, a1, a2, uo, r) ==
    [line1_data |-> a1, line2_data |-> a2, user_options |-> uo,
     out |-> r.out, icptX |-> r.icptX, icptY |-> r.icptY,
     r1 |-> r.line1_data, r2 |-> r.line2_data, log |-> r.log,
     pre1 |-> Content(h, a1), pre2 |-> Content(h, a2),
     post1 |-> Content(r.heap, a1), post2 |-> Content(r.heap, a2),
     ret1 |-> Content(r.heap, r.line1_data), ret2 |-> Content(r.heap, r.line2_data)]

\* the caller calls getLineIntersectionData(a1, a2, uo)
Call(a1, a2, uo) ==
    /\ budget > 0
    /\ \E r \in {GetLineIntersectionData(heap, a1, a2, uo)} :
           /\ heap' = r.heap
           /\ calls' = Append(calls, CallRecord(heap, a1, a2, uo, r))
    /\ budget' = budget - 1
    /\ UNCHANGED <<lineA, lineB, optset>>

Succeeded == {i \in 1..Len(calls) : calls[i].out = "result"}

\* the arguments of a call: the caller's two lines, the two lines an earlier
\* call returned, or one returned line and one of the caller's lines
Arguments ==
    {<<lineA, lineB>>}
    \cup {<<calls[i].r1, calls[i].r2>> : i \in Succeeded}
    \cup {<<calls[i].r1, lineB>> : i \in Succeeded}
    \cup {<<lineA, calls[i].r2>> : i \in Succeeded}

Next == \E args \in Arguments, uo \in optset : Call(args[1], args[2], uo)

\* the state after the caller built the lines d1 and d2 (each an array literal
\* when isArr, else the primitive v) and holds the options opts
InitWith(d1, d2, opts, n) ==
    LET h0 == <<NewObj(Undefined, Undefined)>>
        h1 == IF d1.isArr THEN AllocLine(h0, d1.ds, <<>>) ELSE h0
        h2 == IF d2.isArr THEN AllocLine(h1, d2.ds, <<>>) ELSE h1
    IN  /\ heap = h2
        /\ lineA = IF d1.isArr THEN Ref(Len(h1)) ELSE d1.v
        /\ lineB = IF d2.isArr THEN Ref(Len(h2)) ELSE d2.v
        /\ optset = opts
        /\ budget = n
        /\ calls = <<>>

Line(ds) == [isArr |-> TRUE, ds |-> ds, v |-> Undefined]

NotALine(v) == [isArr |-> FALSE, ds |-> <<>>, v |-> v]

Coords == 0..MaxCoord

Points == {Pair(px, py) : px \in Coords, py \in Coords}

\* the corners of the unit square
UnitPoints == {Pair(px, py) : px \in {0, 1}, py \in {0, 1}}

\* the corners of the unit square on the y axis
AxisPoints == {Pair(0, py) : py \in {0, 1}}

\* the caller's icptPoint object as an option
ObjectPoint == Val(Ref(PointObject))

WithPoint(ip) == UserOptions("object", ip, Absent, Absent, Absent)

WithHooks(op, oi, vi) == UserOptions("object", Absent, op, oi, vi)

----------------------------------------------------------------------------
(* Specifications *)

\* one call on two lines of two points each, with the default options or
\* with the caller's icptPoint object
OptsGeo == {NoOptions, WithPoint(ObjectPoint)}

Init ==
    \E p1 \in Points, p2 \in Points, p3 \in Points, p4 \in Points :
        InitWith(Line(<<p1, p2>>), Line(<<p3, p4>>), OptsGeo, 1)

Spec == Init /\ [][Next]_vars

\* coordinates far from the origin, and the points with such coordinates
FarCoords == {0 - MaxWide, MaxWide}

FarPoints == {Pair(px, py) : px \in FarCoords, py \in FarCoords}

\* the double next below 3: 3 - 2^-51, written 2.9999999999999996
BelowThree == NumSub(NumOf(3), NumMul(Frac(1, 2^25), Frac(1, 2^26)))

\* the point [2.9999999999999996, 2.9999999999999996]
NearPoint == [isArr |-> TRUE, e |-> <<BelowThree, BelowThree>>]

\* the point [3, 2.9999999999999996]
NextPoint == [isArr |-> TRUE, e |-> <<NumOf(3), BelowThree>>]

\* one call with the default options on two lines of two points each. Line
\* 1 starts at a corner of the unit square and ends near the origin or far
\* from it; line 2 starts near the origin and ends far from it or on the y
\* axis, or it joins two points that are one unit in the last place apart
InitFar ==
    \E p1 \in UnitPoints, p2 \in Points \cup FarPoints,
       p3 \in Points \cup {NearPoint},
       p4 \in FarPoints \cup {Pair(0, MaxCoord), NextPoint} :
        InitWith(Line(<<p1, p2>>), Line(<<p3, p4>>), {NoOptions}, 1)

SpecFar == InitFar /\ [][Next]_vars

\* one call with hooks: every hook is left out, or a function that returns
\* true, false or nothing, or a value that is no function; line 1 joins two
\* corners of the unit square and starts on the y axis
HookValues == {Absent, Fn(True), Fn(False), Fn(Undefined), Val(NumOf(5))}

\* user_options that is no object: omitted, null, 0, NaN, "", false, and the
\* values 5, "s" and true, which do not count as false
PrimitiveValues ==
    {Undefined, Null, NumOf(0), NaN, EmptyString, False,
     NumOf(5), Str(<<115>>), True}

OptsHooks ==
    {WithHooks(op, oi, vi) :
        op \in {Absent, Fn(Undefined), Val(NumOf(5))},
        oi \in HookValues, vi \in HookValues}
    \cup {PrimitiveOptions(p) : p \in PrimitiveValues}
    \cup {UserOptions("array", Absent, Absent, Absent, Absent)}
    \cup {WithPoint(Val(Null)), WithPoint(Val(NumOf(5))),
          WithPoint(Fn(Ref(PointObject)))}

InitHooks ==
    \E p1 \in AxisPoints, p2 \in UnitPoints, p3 \in UnitPoints, p4 \in Points :
        InitWith(Line(<<p1, p2>>), Line(<<p3, p4>>), OptsHooks, 1)

SpecHooks == InitHooks /\ [][Next]_vars

\* up to MaxCalls calls, with the default options or with the caller's
\* icptPoint object
OptsSeq == {NoOptions, WithPoint(ObjectPoint)}

InitSeq ==
    \E p1 \in UnitPoints, p2 \in UnitPoints, p3 \in Points, p4 \in Points :
        InitWith(Line(<<p1, p2>>), Line(<<p3, p4>>), OptsSeq, MaxCalls)

SpecSeq == InitSeq /\ [][Next]_vars

\* calls with the default options that start from a line of three points
InitPoly ==
    \E p1 \in UnitPoints, p2 \in Points, p3 \in UnitPoints,
       p4 \in UnitPoints, p5 \in UnitPoints :
        InitWith(Line(<<p1, p2, p3>>), Line(<<p4, p5>>), {NoOptions}, MaxCalls)

SpecPoly == InitPoly /\ [][Next]_vars

\* one call with the default options on a first argument that is no line:
\* missing, a number, too short, or with an element that is no pair of numbers
BadElements ==
    {Primitive(Null), Primitive(NumOf(5)), Primitive(Str(<<115, 49>>)),
     ArrayOf(<<NumOf(1)>>), ArrayOf(<<NumOf(1), Undefined>>)}

BadLines ==
    {NotALine(Undefined), NotALine(Null), NotALine(NumOf(5))}
    \cup {Line(<<>>)}
    \cup {Line(<<p>>) : p \in Points}
    \cup {Line(<<p, b>>) : p \in Points, b \in BadElements}
    \cup {Line(<<b, p>>) : p \in Points, b \in BadElements}
    \cup {Line(<<p, q, b>>) : p \in UnitPoints, q \in UnitPoints, b \in BadElements}
    \cup {Line(<<p, b, q>>) : p \in UnitPoints, q \in UnitPoints, b \in BadElements}

InitBad ==
    \E bad \in BadLines, p3 \in UnitPoints, p4 \in UnitPoints, first \in BOOLEAN :
        IF first
        THEN InitWith(bad, Line(<<p3, p4>>), {NoOptions}, 1)
        ELSE InitWith(Line(<<p3, p4>>), bad, {NoOptions}, 1)

SpecBad == InitBad /\ [][Next]_vars

----------------------------------------------------------------------------
(* Reading the record of a call *)

\* the coordinates of an element of a content: of a pair its elements 0 and
\* 1, of an object its x and y
CoordX(ce) == IF ce[2].t = "arr" THEN (IF Len(ce[2].e) >= 1 THEN ce[2].e[1] ELSE Undefined)
              ELSE ce[2].x

CoordY(ce) == IF ce[2].t = "arr" THEN (IF Len(ce[2].e) >= 2 THEN ce[2].e[2] ELSE Undefined)
              ELSE ce[2].y

\* a pair of two finite numbers
IsNumericPair(ce) ==
    /\ ce[2].t = "arr"
    /\ Len(ce[2].e) = 2
    /\ \A k \in 1..2 : ce[2].e[k][1] = "num" /\ IsFinite(ce[2].e[k])

\* a line of the form [[x1, y1], [x2, y2], ... [xn, yn]] with n >= 2
IsValidLine(c) == Len(c) >= 2 /\ \A i \in 1..Len(c) : IsNumericPair(c[i])

ValidLines(c) == IsValidLine(c.pre1) /\ IsValidLine(c.pre2)

\* <<x of first, y of first, x of last, y of last>> of a line's content
Ends(c) == <<CoordX(c[1]), CoordY(c[1]), CoordX(c[Len(c)]), CoordY(c[Len(c)])>>

\* user_options passes the checks: a plain object, or a value that counts as
\* false (omitted, null, 0, NaN, "" or false) and is replaced by {}
OptionsAccepted(c) ==
    \/ c.user_options.v = "object"
    \/ c.user_options.v = "primitive" /\ ~Truthy(c.user_options.p)

\* the call computed its determinant: lines and user_options passed the checks
Computed(c) == ValidLines(c) /\ OptionsAccepted(c)

\* the determinant of the two first-to-last segments
Determinant(p, q) ==
    NumSub(NumMul(NumSub(p[1], p[3]), NumSub(q[2], q[4])),
           NumMul(NumSub(p[2], p[4]), NumSub(q[1], q[3])))

ParallelLines(c) == NumEq(Determinant(Ends(c.pre1), Ends(c.pre2)), NumOf(0))

\* |a|
NumAbs(a) == IF SignOf(a) < 0 THEN NumNeg(a) ELSE a

\* 2^-50 and 2^-40
Tolerance == NumMul(Frac(1, 2^25), Frac(1, 2^25))

WideTolerance == NumMul(Frac(1, 2^20), Frac(1, 2^20))

\* a and b differ by at most tol
Near(a, b, tol) == NumLe(NumAbs(NumSub(a, b)), tol)

\* (px, py) lies on the infinite line through the end points e of a line:
\* (px - x1) * (y2 - y1) = (py - y1) * (x2 - x1)
OnLine(px, py, e) ==
    NumEq(NumMul(NumSub(px, e[1]), NumSub(e[4], e[2])),
          NumMul(NumSub(py, e[2]), NumSub(e[3], e[1])))

\* (|px| + |py| + |x1| + |y1|) * (|x2 - x1| + |y2 - y1|): the size of the
\* terms of that equation
LineScale(px, py, e) ==
    NumMul(NumAdd(NumAdd(NumAbs(px), NumAbs(py)), NumAdd(NumAbs(e[1]), NumAbs(e[2]))),
           NumAdd(NumAbs(NumSub(e[3], e[1])), NumAbs(NumSub(e[4], e[2]))))

\* the two sides of that equation differ by at most Tolerance times the size
\* of its terms
NearLine(px, py, e) ==
    Near(NumMul(NumSub(px, e[1]), NumSub(e[4], e[2])),
         NumMul(NumSub(py, e[2]), NumSub(e[3], e[1])),
         NumMul(Tolerance, LineScale(px, py, e)))

\* an integer of magnitude at most 2^14
IsSmallInteger(v) ==
    v[1] = "num" /\ (v[3] = 1 \/ v = NegZero \/ NumEq(NumAbs(v), NumOf(2^SmallBits)))

\* every coordinate of the end points e of a line is such an integer
IntegerEnds(e) == \A k \in 1..4 : IsSmallInteger(e[k])

\* the end points of both lines of a call have such coordinates: denom,
\* xNumer and yNumer are computed without rounding
IntegerLines(c) == IntegerEnds(Ends(c.pre1)) /\ IntegerEnds(Ends(c.pre2))

\* the hooks a call invoked, by name
Invoked(c, name) == {i \in 1..Len(c.log) : c.log[i].h = name}

Called == {calls[i] : i \in 1..Len(calls)}

----------------------------------------------------------------------------
(* C1 *)

\* C1 as stated: a call with the default options on two valid lines whose
\* first-to-last segments are not parallel returns a result, and
\* (icptX, icptY) lies on the infinite line through the first and last point
\* of line 1 and on that of line 2.
C1_IntersectionOnBothLines ==
    \A c \in Called :
        (ValidLines(c) /\ c.user_options = NoOptions /\ ~ParallelLines(c))
        => /\ c.out = "result"
           /\ OnLine(c.icptX, c.icptY, Ends(c.pre1))
           /\ OnLine(c.icptX, c.icptY, Ends(c.pre2))

\* C1 as amended: such a call returns a result, and when the coordinates of
\* the end points are integers of magnitude at most 2^14, (icptX, icptY)
\* satisfies the equations of both lines up to the rounding of the
\* arithmetic: the two sides of each equation differ by at most 2^-50 times
\* (|icptX| + |icptY| + |x1| + |y1|) * (|x2 - x1| + |y2 - y1|).
C1_IntersectionNearBothLines ==
    \A c \in Called :
        (ValidLines(c) /\ c.user_options = NoOptions /\ ~ParallelLines(c))
        => /\ c.out = "result"
           /\ (IntegerLines(c)
               => (/\ NearLine(c.icptX, c.icptY, Ends(c.pre1))
                   /\ NearLine(c.icptX, c.icptY, Ends(c.pre2))))

\* a result with the default options for lines with integer coordinates, one
\* of them far from the origin, whose point was rounded: it misses the
\* equation of line 2 by a rounding error
C1_Witness ==
    \E c \in Called :
        /\ ValidLines(c) /\ c.user_options = NoOptions /\ ~ParallelLines(c)
        /\ IntegerLines(c)
        /\ NumEq(NumAbs(CoordX(c.pre1[2])), NumOf(MaxWide))
        /\ c.out = "result" /\ IsWide(c.icptX)
        /\ ~OnLine(c.icptX, c.icptY, Ends(c.pre2))
        /\ NearLine(c.icptX, c.icptY, Ends(c.pre1))
        /\ NearLine(c.icptX, c.icptY, Ends(c.pre2))

----------------------------------------------------------------------------
(* C2 *)

\* C2: no call changes its two line arguments: after the call each has the
\* same elements in the same order, and every inner point the same content.
C2_ArgumentsNeverMutated ==
    \A c \in Called : c.post1 = c.pre1 /\ c.post2 = c.pre2

----------------------------------------------------------------------------
(* C3 *)

OnParallelIsFunction(c) == c.user_options.onParallel.k \in {"absent", "fn"}

\* C3: a call that computes a determinant of zero returns no result, calls
\* onParallel exactly once when it is a function, calls no other hook and
\* inserts no point.
C3_ParallelYieldsNoResult ==
    \A c \in Called :
        (Computed(c) /\ ParallelLines(c))
        => /\ c.out = "undefined"
           /\ c.r1 = Undefined /\ c.r2 = Undefined
           /\ c.log = IF OnParallelIsFunction(c)
                      THEN <<Event("onParallel", Undefined, Undefined)>>
                      ELSE <<>>
           /\ c.post1 = c.pre1 /\ c.post2 = c.pre2

\* parallel lines, with an onParallel function of the caller that was called
\* and an already-intersecting hook that would reject
C3_Witness ==
    \E c \in Called :
        /\ Computed(c) /\ ParallelLines(c)
        /\ c.user_options.onParallel = Fn(Undefined)
        /\ c.user_options.onLinesAlreadyIntersect = Fn(False)
        /\ Len(c.log) = 1

----------------------------------------------------------------------------
(* C4 *)

\* C4: a returned result is a snapshot: the lines of every earlier result
\* keep the content they had when they were returned.
C4_ResultIsSnapshot ==
    \A i \in Succeeded :
        /\ Content(heap, calls[i].r1) = calls[i].ret1
        /\ Content(heap, calls[i].r2) = calls[i].ret2

----------------------------------------------------------------------------
(* C5 *)

\* C5: a call on the two lines an earlier call returned, with the same
\* options, returns the same intersection point and lines of the same length.
C5_Idempotent ==
    \A i \in Succeeded : \A j \in 1..Len(calls) :
        (/\ i < j
         /\ calls[j].line1_data = calls[i].r1
         /\ calls[j].line2_data = calls[i].r2
         /\ calls[j].user_options = calls[i].user_options)
        => /\ calls[j].out = "result"
           /\ NumEq(calls[j].icptX, calls[i].icptX)
           /\ NumEq(calls[j].icptY, calls[i].icptY)
           /\ Len(calls[j].ret1) = Len(calls[i].ret1)
           /\ Len(calls[j].ret2) = Len(calls[i].ret2)

----------------------------------------------------------------------------
(* C6 *)

\* the x values of a line are sorted, ascending when the first is at most
\* the last and descending otherwise
XSorted(c) ==
    \A i \in 1..(Len(c) - 1) :
        IF NumLe(CoordX(c[1]), CoordX(c[Len(c)]))
        THEN NumLe(CoordX(c[i]), CoordX(c[i + 1]))
        ELSE NumLe(CoordX(c[i + 1]), CoordX(c[i]))

\* u comes before v, or equals it, in the direction asc
InOrder(u, v, asc) == IF asc THEN NumLe(u, v) ELSE NumLe(v, u)

\* ret is sorted by x in the direction of the line pre, ties on x by y in
\* the y direction of pre
SortedLike(ret, pre) ==
    \A i \in 1..(Len(ret) - 1) :
        /\ InOrder(CoordX(ret[i]), CoordX(ret[i + 1]),
                   NumLe(CoordX(pre[1]), CoordX(pre[Len(pre)])))
        /\ NumEq(CoordX(ret[i]), CoordX(ret[i + 1]))
           => InOrder(CoordY(ret[i]), CoordY(ret[i + 1]),
                      NumLe(CoordY(pre[1]), CoordY(pre[Len(pre)])))

\* C6: when the x values of an input line are sorted and the intersection
\* point is newly inserted, the returned line is sorted by x in the same
\* direction, ties on x by y in the line's y direction.
C6_SortOrderPreserved ==
    \A c \in Called :
        (c.out = "result" /\ ValidLines(c))
        => /\ (XSorted(c.pre1) /\ Len(c.ret1) = Len(c.pre1) + 1)
              => SortedLike(c.ret1, c.pre1)
           /\ (XSorted(c.pre2) /\ Len(c.ret2) = Len(c.pre2) + 1)
              => SortedLike(c.ret2, c.pre2)

----------------------------------------------------------------------------
(* C7 *)

Min(u, v) == IF NumLt(v, u) THEN v ELSE u

Max(u, v) == IF NumLt(u, v) THEN v ELSE u

\* icptX lies within [min(x1,x2), max(x1,x2)] and [min(x3,x4), max(x3,x4)]
WithinBothRanges(icptX, p, q) ==
    /\ NumLe(Min(p[1], p[3]), icptX) /\ NumLe(icptX, Max(p[1], p[3]))
    /\ NumLe(Min(q[1], q[3]), icptX) /\ NumLe(icptX, Max(q[1], q[3]))

\* C7: on lines that are not parallel, the already-intersecting hook is called
\* exactly when icptX lies within the x range of both segments.
C7_HookIffWithinBothRanges ==
    \A c \in Called :
        (ValidLines(c) /\ c.out = "result"
            /\ c.user_options.onLinesAlreadyIntersect.k \in {"absent", "fn"})
        => (Invoked(c, "onLinesAlreadyIntersect") # {}
            <=> WithinBothRanges(c.icptX, Ends(c.pre1), Ends(c.pre2)))

----------------------------------------------------------------------------
(* C8 *)

\* C8: a call whose first or second argument is no valid line returns
\* undefined: it neither throws nor returns a result.
C8_MalformedLinesReturnUndefined ==
    \A c \in Called : ~ValidLines(c) => c.out = "undefined"

----------------------------------------------------------------------------
(* C9 *)

\* user_options is an array or a number, or one of the three hooks is given
\* a value that is no function
InvalidOptions(uo) ==
    \/ uo.v = "array"
    \/ uo.v = "primitive" /\ ~IsNullish(uo.p)
    \/ uo.v = "object" /\ \E key \in {"onParallel", "onLinesAlreadyIntersect",
                                      "validateIntersection"} : uo[key].k = "val"

\* C9: a call on valid lines with invalid options returns undefined.
C9_InvalidOptionsYieldNoResult ==
    \A c \in Called :
        (ValidLines(c) /\ InvalidOptions(c.user_options)) => c.out = "undefined"

----------------------------------------------------------------------------
(* C10 *)

\* C10: a call on valid lines whose validateIntersection hook returns false
\* returns no result, whatever the geometry, and returns no line with an
\* inserted point.
C10_RejectedByValidate ==
    \A c \in Called :
        (ValidLines(c) /\ c.user_options.v = "object"
            /\ c.user_options.validateIntersection = Fn(False))
        => /\ c.out = "undefined"
           /\ c.r1 = Undefined /\ c.r2 = Undefined
           /\ Invoked(c, "insert") = {}

\* segments that already cross, whose hook let the call go on, rejected by
\* validateIntersection
C10_Witness ==
    \E c \in Called :
        /\ ValidLines(c) /\ ~ParallelLines(c)
        /\ c.user_options.validateIntersection = Fn(False)
        /\ Invoked(c, "onLinesAlreadyIntersect") # {}
        /\ Invoked(c, "validateIntersection") # {}
        /\ c.out = "undefined"

----------------------------------------------------------------------------
(* C11 *)

\* what a hook may return: true, nothing, null, 0, the empty string, false
ReturnValues == {True, Undefined, Null, NumOf(0), EmptyString, False}

\* one call whose two hooks are functions returning any of these values
OptsReturns ==
    {WithHooks(Absent, Fn(a), Fn(b)) : a \in ReturnValues, b \in ReturnValues}

InitReturns ==
    \E p1 \in UnitPoints, p2 \in UnitPoints, p3 \in UnitPoints, p4 \in Points :
        InitWith(Line(<<p1, p2>>), Line(<<p3, p4>>), OptsReturns, 1)

SpecReturns == InitReturns /\ [][Next]_vars

\* the hook is the default one or a function that returns something other
\* than the boolean false
Accepts(f) == f.k = "absent" \/ (f.k = "fn" /\ f.r # False)

\* C11: on valid lines that are not parallel, with a valid icptPoint, a call
\* whose hooks return anything but the boolean false (true, nothing, null, 0,
\* the empty string) calls validateIntersection and returns a result.
C11_OnlyFalseRejects ==
    \A c \in Called :
        (/\ ValidLines(c) /\ ~ParallelLines(c)
         /\ c.user_options.v = "object"
         /\ c.user_options.icptPoint.k = "absent"
         /\ Accepts(c.user_options.onLinesAlreadyIntersect)
         /\ Accepts(c.user_options.validateIntersection))
        => /\ c.out = "result"
           /\ Invoked(c, "validateIntersection") # {}

\* segments that already cross, a hook returning 0 and a validation
\* returning null, and a result all the same
C11_Witness ==
    \E c \in Called :
        /\ ValidLines(c) /\ ~ParallelLines(c)
        /\ c.user_options.onLinesAlreadyIntersect = Fn(NumOf(0))
        /\ c.user_options.validateIntersection = Fn(Null)
        /\ Invoked(c, "onLinesAlreadyIntersect") # {}
        /\ Invoked(c, "validateIntersection") # {}
        /\ c.out = "result"

----------------------------------------------------------------------------
(* C12 *)

\* the line has a point with the coordinates (px, py)
Contains(c, px, py) ==
    \E i \in 1..Len(c) : NumEq(CoordX(c[i]), px) /\ NumEq(CoordY(c[i]), py)

\* the length a returned line must have
ExpectedLength(c, px, py) == IF Contains(c, px, py) THEN Len(c) ELSE Len(c) + 1

\* C12: each returned line has the length of its input line when that line
\* already has a point with the coordinates (icptX, icptY), and one more
\* otherwise, each line for itself.
C12_ReturnedLength ==
    \A c \in Called :
        (c.out = "result" /\ ValidLines(c))
        => /\ Len(c.ret1) = ExpectedLength(c.pre1, c.icptX, c.icptY)
           /\ Len(c.ret2) = ExpectedLength(c.pre2, c.icptX, c.icptY)

\* a line of three points or more that has the intersection among its points
\* keeps its length, while the other line, which has not, grows by one
C12_Witness ==
    \E c \in Called :
        /\ c.out = "result" /\ ValidLines(c)
        /\ Len(c.pre1) >= 3
        /\ Contains(c.pre1, c.icptX, c.icptY) /\ Len(c.ret1) = Len(c.pre1)
        /\ ~Contains(c.pre2, c.icptX, c.icptY) /\ Len(c.ret2) = Len(c.pre2) + 1

----------------------------------------------------------------------------
(* C13 *)

\* the coordinates of the points of a line, in order
Coordinates(c) == [i \in 1..Len(c) |-> <<CoordX(c[i]), CoordY(c[i])>>]

\* a line of numeric pairs written as a sequence of pairs of integers
LineOf(ps) == [i \in 1..Len(ps) |-> <<NumOf(ps[i][1]), NumOf(ps[i][2])>>]

\* the call getLineIntersectionData([[0,1],[2,1]], [[1,0],[1,2]])
IsBasicExample(c) ==
    /\ c.user_options = NoOptions
    /\ Coordinates(c.pre1) = LineOf(<<<<0, 1>>, <<2, 1>>>>)
    /\ Coordinates(c.pre2) = LineOf(<<<<1, 0>>, <<1, 2>>>>)

\* C13: for line1 = [[0,1],[2,1]] and line2 = [[1,0],[1,2]] with the default
\* options the call returns icptX = 1, icptY = 1,
\* line1_data = [[0,1],[1,1],[2,1]] and line2_data = [[1,0],[1,1],[1,2]].
C13_BasicExample ==
    \A c \in Called :
        IsBasicExample(c)
        => /\ c.out = "result"
           /\ c.icptX = NumOf(1) /\ c.icptY = NumOf(1)
           /\ Coordinates(c.ret1) = LineOf(<<<<0, 1>>, <<1, 1>>, <<2, 1>>>>)
           /\ Coordinates(c.ret2) = LineOf(<<<<1, 0>>, <<1, 1>>, <<1, 2>>>>)

\* the call of the example was made and returned a result with two lines of
\* three points
C13_Witness ==
    \E c \in Called :
        IsBasicExample(c) /\ c.out = "result" /\ Len(c.ret1) = 3 /\ Len(c.ret2) = 3

----------------------------------------------------------------------------
(* C19 *)

\* the positions in the log of the calls of the two hooks
HookCalls(c) ==
    Invoked(c, "onLinesAlreadyIntersect") \cup Invoked(c, "validateIntersection")

\* C19: in a call on lines that are not parallel, each of the two hooks is
\* called at most once, onLinesAlreadyIntersect before validateIntersection,
\* with the icptX and icptY a result reports; validateIntersection is not
\* called after onLinesAlreadyIntersect returned false; and no point is
\* inserted before the hooks were called, nor after one of them returned false.
C19_HookOrder ==
    \A c \in Called :
        (Computed(c) /\ ~ParallelLines(c))
        => /\ Cardinality(Invoked(c, "onLinesAlreadyIntersect")) <= 1
           /\ Cardinality(Invoked(c, "validateIntersection")) <= 1
           /\ \A i \in Invoked(c, "onLinesAlreadyIntersect") :
                  \A j \in Invoked(c, "validateIntersection") : i < j
           /\ \A i \in HookCalls(c) : \A j \in Invoked(c, "insert") : i < j
           /\ c.out = "result"
              => \A i \in HookCalls(c) :
                     c.log[i].x = c.icptX /\ c.log[i].y = c.icptY
           /\ (c.user_options.onLinesAlreadyIntersect = Fn(False)
                    /\ Invoked(c, "onLinesAlreadyIntersect") # {})
              => (Invoked(c, "validateIntersection") = {}
                    /\ Invoked(c, "insert") = {} /\ c.out = "undefined")
           /\ c.user_options.validateIntersection = Fn(False)
              => (Invoked(c, "insert") = {} /\ c.out = "undefined")

\* a call that called both hooks and then inserted the point into both lines
C19_Witness ==
    \E c \in Called :
        /\ Computed(c) /\ ~ParallelLines(c)
        /\ c.user_options.onLinesAlreadyIntersect = Fn(Undefined)
        /\ c.user_options.validateIntersection = Fn(True)
        /\ Len(c.log) = 4
        /\ c.log[1].h = "onLinesAlreadyIntersect" /\ c.log[2].h = "validateIntersection"
        /\ c.log[3].h = "insert" /\ c.log[4].h = "insert"
        /\ c.out = "result"

----------------------------------------------------------------------------
(* C20 *)

\* how often the element ce (an address with the object at it) is in a line
Count(c, ce) == Cardinality({i \in 1..Len(c) : c[i] = ce})

\* the elements of a line that have the coordinates (px, py)
Coincident(c, px, py) ==
    {i \in 1..Len(c) : NumEq(CoordX(c[i]), px) /\ NumEq(CoordY(c[i]), py)}

First(S) == CHOOSE i \in S : \A j \in S : i <= j

\* ret is pre with the element pt added: as a bag of elements when no point
\* of pre has the coordinates of pt, and else pre with pt put in the place of
\* the first such point
PointAdded(pre, ret, pt) ==
    IF Coincident(pre, CoordX(pt), CoordY(pt)) = {}
    THEN /\ Len(ret) = Len(pre) + 1
         /\ \A i \in 1..Len(ret) :
                Count(ret, ret[i]) = Count(pre, ret[i]) + (IF ret[i] = pt THEN 1 ELSE 0)
    ELSE ret = [pre EXCEPT ![First(Coincident(pre, CoordX(pt), CoordY(pt)))] = pt]

\* C20: after a successful call both returned lines hold the same new point
\* with the coordinates (icptX, icptY); apart from it each holds exactly the
\* elements of its input line, or, when the input line has points with these
\* coordinates, the input line with the first of them replaced by the point.
C20_PointsPreserved ==
    \A c \in Called :
        (c.out = "result" /\ ValidLines(c))
        => \E i \in 1..Len(c.ret1) :
              /\ CoordX(c.ret1[i]) = c.icptX /\ CoordY(c.ret1[i]) = c.icptY
              /\ Count(c.pre1, c.ret1[i]) = 0 /\ Count(c.pre2, c.ret1[i]) = 0
              /\ PointAdded(c.pre1, c.ret1, c.ret1[i])
              /\ PointAdded(c.pre2, c.ret2, c.ret1[i])

\* a line of three points whose first two have the coordinates of the
\* intersection: the first is replaced, the second kept
C20_Witness ==
    \E c \in Called :
        /\ c.out = "result" /\ ValidLines(c)
        /\ Len(c.pre1) >= 3
        /\ Cardinality(Coincident(c.pre1, c.icptX, c.icptY)) >= 2
        /\ c.ret1[First(Coincident(c.pre1, c.icptX, c.icptY))] \notin
                {c.pre1[i] : i \in 1..Len(c.pre1)}
        /\ Cardinality({i \in 1..Len(c.ret1) : c.ret1[i] \in {c.pre1[j] : j \in 1..Len(c.pre1)}})
                = Len(c.pre1) - 1

----------------------------------------------------------------------------
(* getTrendlineData *)

\* SX, SY, SXY, SXX and SYY all 0
NoSums == [SX |-> NumOf(0), SY |-> NumOf(0), SXY |-> NumOf(0),
           SXX |-> NumOf(0), SYY |-> NumOf(0)]

\* the loop of regression from sample i on (i counts from 1 here); SX and SY
\* grow by the samples as they are, the other sums by products
RECURSIVE Sums(_, _, _, _, _)
Sums(h, X, Y, i, acc) ==
    IF i > Len(X) THEN acc
    ELSE Sums(h, X, Y, i + 1,
              [SX |-> Add(h, acc.SX, X[i]),
               SY |-> Add(h, acc.SY, Y[i]),
               SXY |-> NumAdd(acc.SXY, Mul(h, X[i], Y[i])),
               SXX |-> NumAdd(acc.SXX, Mul(h, X[i], X[i])),
               SYY |-> NumAdd(acc.SYY, Mul(h, Y[i], Y[i]))])

\* N * SXX - SX * SX
SlopeDenominator(h, N, acc) == NumSub(NumMul(N, acc.SXX), Mul(h, acc.SX, acc.SX))

\* the slope with a guard for the denominator 0
SlopeGuarded(h, N, acc) ==
    IF NumEq(SlopeDenominator(h, N, acc), NumOf(0)) THEN NumOf(0)
    ELSE NumDiv(NumSub(NumMul(N, acc.SXY), Mul(h, acc.SX, acc.SY)),
                SlopeDenominator(h, N, acc))

\* slope = (N * SXY - SX * SY) / (N * SXX - SX * SX)
Slope(h, N, acc) ==
    NumDiv(NumSub(NumMul(N, acc.SXY), Mul(h, acc.SX, acc.SY)),
           SlopeDenominator(h, N, acc))

\* the intercept without the division by N
InterceptOfSums(h, N, acc, slope) == Sub(h, acc.SY, Mul(h, slope, acc.SX))

\* intercept = (SY - slope * SX) / N
Intercept(h, N, acc, slope) == NumDiv(Sub(h, acc.SY, Mul(h, slope, acc.SX)), N)

\* return [slope, intercept]
Returned(h, N, acc, slope) == <<slope, Intercept(h, N, acc, slope)>>

\* [slope, intercept] from the sums
SlopeAndIntercept(h, N, acc) == Returned(h, N, acc, Slope(h, N, acc))

\* regression(x, y)
Regression(h, X, Y) == SlopeAndIntercept(h, NumOf(Len(X)), Sums(h, X, Y, 1, NoSums))

\* the loop over data with the test of data[i][0] alone
RECURSIVE SamplesByX(_, _, _, _, _)
SamplesByX(h, data, i, x, y) ==
    IF i >= Length(h, data) THEN <<x, y>>
    ELSE IF ~IsNullish(Index(h, data, i)) /\ ClassOf(h, Index(h, data, i)) = "Array"
    THEN IF ~IsNullish(Index(h, Index(h, data, i), 0))
         THEN SamplesByX(h, data, i + 1,
                         Append(x, Index(h, Index(h, data, i), 0)),
                         Append(y, Index(h, Index(h, data, i), 1)))
         ELSE SamplesByX(h, data, i + 1, x, y)
    ELSE IF ~IsNullish(Index(h, data, i)) /\ ClassOf(h, Index(h, data, i)) = "Number"
    THEN SamplesByX(h, data, i + 1, Append(x, NumOf(i)), Append(y, Index(h, data, i)))
    ELSE SamplesByX(h, data, i + 1, x, y)

\* the loop over data with x.push(x.length) for a bare number
RECURSIVE SamplesByRank(_, _, _, _, _)
SamplesByRank(h, data, i, x, y) ==
    IF i >= Length(h, data) THEN <<x, y>>
    ELSE IF ~IsNullish(Index(h, data, i)) /\ ClassOf(h, Index(h, data, i)) = "Array"
    THEN IF ~IsNullish(Index(h, Index(h, data, i), 0))
            /\ ~IsNullish(Index(h, Index(h, data, i), 1))
         THEN SamplesByRank(h, data, i + 1,
                            Append(x, Index(h, Index(h, data, i), 0)),
                            Append(y, Index(h, Index(h, data, i), 1)))
         ELSE SamplesByRank(h, data, i + 1, x, y)
    ELSE IF ~IsNullish(Index(h, data, i)) /\ ClassOf(h, Index(h, data, i)) = "Number"
    THEN SamplesByRank(h, data, i + 1, Append(x, NumOf(Len(x))), Append(y, Index(h, data, i)))
    ELSE SamplesByRank(h, data, i + 1, x, y)

\* the loop over data from element i on (i counts from 0): the samples
\* <<x, y>> it has pushed
RECURSIVE Samples(_, _, _, _, _)
Samples(h, data, i, x, y) ==
    IF i >= Length(h, data) THEN <<x, y>>
    ELSE IF ~IsNullish(Index(h, data, i)) /\ ClassOf(h, Index(h, data, i)) = "Array"
    THEN IF ~IsNullish(Index(h, Index(h, data, i), 0))
            /\ ~IsNullish(Index(h, Index(h, data, i), 1))
         THEN Samples(h, data, i + 1,
                      Append(x, Index(h, Index(h, data, i), 0)),
                      Append(y, Index(h, Index(h, data, i), 1)))
         ELSE Samples(h, data, i + 1, x, y)
    ELSE IF ~IsNullish(Index(h, data, i)) /\ ClassOf(h, Index(h, data, i)) = "Number"
    THEN Samples(h, data, i + 1, Append(x, NumOf(i)), Append(y, Index(h, data, i)))
    ELSE Samples(h, data, i + 1, x, y)

\* ypred: [x[i], ret[0] * x[i] + ret[1]] for every sample
Predicted(h, ret, x) == [i \in 1..Len(x) |-> <<x[i], NumAdd(Mul(h, ret[1], x[i]), ret[2])>>]

\* the returned object; its data is given by the coordinates of its pairs
TrendlineOf(h, ret, x) == [data |-> Predicted(h, ret, x), slope |-> ret[1], intercept |-> ret[2]]

FitSamples(h, xy) == TrendlineOf(h, Regression(h, xy[1], xy[2]), xy[1])

\* getTrendlineData(data), data an array on the heap h
GetTrendlineData(h, data) == FitSamples(h, Samples(h, data, 0, <<>>, <<>>))

----------------------------------------------------------------------------
(* The caller of getTrendlineData *)

\* the record of a call getTrendlineData(d): the content of d and the
\* returned object
TrendRecord(h, d, r) ==
    [data |-> d, pre |-> Content(h, d), out |-> "trend", trend |-> r]

\* the caller calls getTrendlineData on its array lineA
CallTrend ==
    /\ budget > 0
    /\ calls' = Append(calls, TrendRecord(heap, lineA, GetTrendlineData(heap, lineA)))
    /\ budget' = budget - 1
    /\ UNCHANGED <<heap, lineA, lineB, optset>>

NextTrend == CallTrend

SeqsUpTo(S, n) == UNION {[1..k -> S] : k \in 0..n}

\* what the caller puts into data: pairs of numbers, elements that are null
\* or absent, pairs with a null or absent coordinate, and bare numbers
SkippedElements ==
    {Primitive(Null), Primitive(Undefined), ArrayOf(<<Null, NumOf(1)>>),
     ArrayOf(<<NumOf(1), Null>>), ArrayOf(<<NumOf(1)>>)}

BareNumbers == {Primitive(NumOf(5)), Primitive(NumOf(7)), Primitive(NumOf(9))}

\* pairs whose x is the double nearest to 3/10
TenthPairs == {ArrayOf(<<Frac(3, 10), NumOf(py)>>) : py \in {0, 1}}

TrendElements ==
    {Pair(px, py) : px \in Coords, py \in {0, 1}} \cup TenthPairs
        \cup SkippedElements \cup BareNumbers

\* one call of getTrendlineData on an array of up to MaxLen such elements
InitTrend ==
    \E ds \in SeqsUpTo(TrendElements, MaxLen) :
        InitWith(Line(ds), NotALine(Undefined), {}, 1)

SpecTrend == InitTrend /\ [][NextTrend]_vars

\* slopes and intercepts of the lines the caller samples: the integers, the
\* halves and the fifths up to MaxCoord
Gradients == {Frac(n, d) : n \in (0 - MaxCoord)..MaxCoord, d \in {1, 2, 5}}

\* y = m * x + b as the caller computes it
LineY(m, b, x) == NumAdd(NumMul(m, x), b)

\* the samples [x, m * x + b] for the x values xs
SamplesOfLine(m, b, xs) ==
    [i \in 1..Len(xs) |-> ArrayOf(<<NumOf(xs[i]), LineY(m, b, NumOf(xs[i]))>>)]

\* one call of getTrendlineData on samples of a line y = m * x + b
InitLinear ==
    \E m \in Gradients, b \in Gradients, xs \in SeqsUpTo(Coords, MaxLen) :
        InitWith(Line(SamplesOfLine(m, b, xs)), NotALine(Undefined), {}, 1)

SpecLinear == InitLinear /\ [][NextTrend]_vars

----------------------------------------------------------------------------
(* Reading the record of a call of getTrendlineData *)

\* the element is a pair whose two coordinates are neither null nor absent
IsFullPair(ce) ==
    /\ ce[2].t = "arr" /\ Len(ce[2].e) >= 2
    /\ ce[2].e[1][1] \notin {"null", "undef"}
    /\ ce[2].e[2][1] \notin {"null", "undef"}

IsBareNumber(ce) == ce[1][1] = "num"

\* the retained samples <<x, y>> of a content from element i on, in order: a
\* full pair as it is, a bare number with its position (from 0) as x
RECURSIVE Retained(_, _)
Retained(c, i) ==
    IF i > Len(c) THEN <<>>
    ELSE IF IsFullPair(c[i]) THEN <<<<c[i][2].e[1], c[i][2].e[2]>>>> \o Retained(c, i + 1)
    ELSE IF IsBareNumber(c[i]) THEN <<<<NumOf(i - 1), c[i][1]>>>> \o Retained(c, i + 1)
    ELSE Retained(c, i + 1)

\* an element that is neither a full pair nor a bare number
Skipped(c) == {i \in 1..Len(c) : ~IsFullPair(c[i]) /\ ~IsBareNumber(c[i])}

Xs(rs) == [k \in 1..Len(rs) |-> rs[k][1]]

Ys(rs) == [k \in 1..Len(rs) |-> rs[k][2]]

TrendCalls == {calls[i] : i \in 1..Len(calls)}

\* the x values of the samples rs are all the same, or there is no sample
Degenerate(rs) == \A j \in 1..Len(rs) : \A k \in 1..Len(rs) : rs[j][1] = rs[k][1]

----------------------------------------------------------------------------
(* C14 *)

\* C14: the returned data has one entry per retained sample, in the order of
\* the input and with its x, and data, slope and intercept are those of the
\* fit of the retained samples alone: elements that are null or absent and
\* pairs with a null coordinate contribute nothing.
C14_SkippedContributeNothing ==
    \A c \in TrendCalls :
        /\ Len(c.trend.data) = Len(Retained(c.pre, 1))
        /\ \A k \in 1..Len(c.trend.data) : c.trend.data[k][1] = Retained(c.pre, 1)[k][1]
        /\ c.trend = FitSamples(<<>>, <<Xs(Retained(c.pre, 1)), Ys(Retained(c.pre, 1))>>)

\* data of MaxLen elements with a skipped pair (one coordinate is null)
\* between the first and the last element, and a fit of two retained
\* samples with a finite slope that is not 0
C14_Witness ==
    \E c \in TrendCalls :
        /\ Len(c.pre) = MaxLen
        /\ \E i \in Skipped(c.pre) : i > 1 /\ i < Len(c.pre)
                /\ c.pre[i][2].t = "arr" /\ Len(c.pre[i][2].e) = 2
        /\ Len(c.trend.data) = 2
        /\ IsFinite(c.trend.slope) /\ ~NumEq(c.trend.slope, NumOf(0))

----------------------------------------------------------------------------
(* C16 *)

\* the bare numbers 5, 7, 9
IsCategoryExample(c) ==
    /\ Len(c) = 3
    /\ c[1][1] = NumOf(5) /\ c[2][1] = NumOf(7) /\ c[3][1] = NumOf(9)

\* the entry of the returned data that belongs to element i of the input
EntryOf(c, i) == Len(Retained(SubSeq(c, 1, i), 1))

\* C16: a bare number at position i (from 0) of the input is fitted with
\* x = i, whatever was skipped before it; the input [5, 7, 9] is fitted at
\* x = 0, 1, 2 with slope 2 and intercept 5.
C16_CategoryPosition ==
    \A c \in TrendCalls :
        /\ \A i \in 1..Len(c.pre) :
              IsBareNumber(c.pre[i])
              => c.trend.data[EntryOf(c.pre, i)][1] = NumOf(i - 1)
        /\ IsCategoryExample(c.pre)
              => /\ c.trend.slope = NumOf(2) /\ c.trend.intercept = NumOf(5)
                 /\ c.trend.data = <<<<NumOf(0), NumOf(5)>>, <<NumOf(1), NumOf(7)>>,
                                     <<NumOf(2), NumOf(9)>>>>

\* a skipped element before two bare numbers, which are fitted at x = 1 and 2
C16_Witness ==
    \E c \in TrendCalls :
        /\ Len(c.pre) = 3 /\ 1 \in Skipped(c.pre)
        /\ IsBareNumber(c.pre[2]) /\ IsBareNumber(c.pre[3])
        /\ c.trend.data[1][1] = NumOf(1) /\ c.trend.data[2][1] = NumOf(2)
        /\ IsFinite(c.trend.slope)

----------------------------------------------------------------------------
(* C17 *)

\* C17: when no sample is retained or all retained x are the same, the call
\* returns an object whose data has one entry per retained sample and whose
\* slope and intercept are not finite.
C17_DegenerateNotDetected ==
    \A c \in TrendCalls :
        Degenerate(Retained(c.pre, 1))
        => /\ c.out = "trend"
           /\ Len(c.trend.data) = Len(Retained(c.pre, 1))
           /\ ~IsFinite(c.trend.slope) /\ ~IsFinite(c.trend.intercept)

\* the sum of the first k x values of the samples rs, added from the left
RECURSIVE SumX(_, _)
SumX(rs, k) == IF k = 0 THEN NumOf(0) ELSE NumAdd(SumX(rs, k - 1), rs[k][1])

\* the sum of the squares of the first k x values of the samples rs
RECURSIVE SumXX(_, _)
SumXX(rs, k) ==
    IF k = 0 THEN NumOf(0) ELSE NumAdd(SumXX(rs, k - 1), NumMul(rs[k][1], rs[k][1]))

\* N * SXX == SX * SX for the samples rs, in the arithmetic of the doubles
ZeroVariance(rs) ==
    NumMul(NumOf(Len(rs)), SumXX(rs, Len(rs)))
        = NumMul(SumX(rs, Len(rs)), SumX(rs, Len(rs)))

\* C17 (amended): when no sample is retained or N * SXX equals SX * SX as the
\* doubles compute them, the call returns an object whose data has one entry
\* per retained sample and whose slope and intercept are not finite.
C17_ZeroDenominatorNotDetected ==
    \A c \in TrendCalls :
        ZeroVariance(Retained(c.pre, 1))
        => /\ c.out = "trend"
           /\ Len(c.trend.data) = Len(Retained(c.pre, 1))
           /\ ~IsFinite(c.trend.slope) /\ ~IsFinite(c.trend.intercept)

\* two samples with the same x and different y, whose sums give N * SXX equal
\* to SX * SX
C17_Witness ==
    \E c \in TrendCalls :
        /\ Len(Retained(c.pre, 1)) = 2
        /\ Retained(c.pre, 1)[1][1] = Retained(c.pre, 1)[2][1]
        /\ Retained(c.pre, 1)[1][2] # Retained(c.pre, 1)[2][2]
        /\ ZeroVariance(Retained(c.pre, 1))
        /\ Len(c.trend.data) = 2 /\ IsNaN(c.trend.slope)

----------------------------------------------------------------------------
(* C15 *)

\* y = m * x + b for every m and b of Gradients and every x of Coords
LineValues ==
    [m \in Gradients |-> [b \in Gradients |-> [x \in Coords |-> LineY(m, b, NumOf(x))]]]

\* every element of the content is a pair [x, y] with x in Coords and
\* y = m * x + b
OnLineOf(c, m, b) ==
    \A i \in 1..Len(c) :
        /\ IsNumericPair(c[i])
        /\ CoordX(c[i]) \in {NumOf(x) : x \in Coords}
        /\ CoordY(c[i]) = LineValues[m][b][CoordX(c[i])[2]]

DistinctXs(c) == \E i \in 1..Len(c) : \E j \in 1..Len(c) : CoordX(c[i]) # CoordX(c[j])

\* the returned points are the input points, the y within WideTolerance
NearPoints(data, c) ==
    /\ Len(data) = Len(c)
    /\ \A k \in 1..Len(c) :
          data[k][1] = CoordX(c[k]) /\ Near(data[k][2], CoordY(c[k]), WideTolerance)

\* the returned points are the input points
SamePoints(data, c) ==
    /\ Len(data) = Len(c)
    /\ \A k \in 1..Len(c) :
          NumEq(data[k][1], CoordX(c[k])) /\ NumEq(data[k][2], CoordY(c[k]))

\* C15 as stated: for pairs that lie on a line y = m * x + b and have at
\* least two different x, the returned slope is m, the returned intercept is
\* b, and every returned point is the input point.
C15_RoundTrip ==
    \A c \in TrendCalls : \A m \in Gradients : \A b \in Gradients :
        (OnLineOf(c.pre, m, b) /\ DistinctXs(c.pre))
        => /\ NumEq(c.trend.slope, m)
           /\ NumEq(c.trend.intercept, b)
           /\ SamePoints(c.trend.data, c.pre)

\* C15 as amended: for such pairs the returned slope is m, the returned
\* intercept is b and every returned point is the input point up to the
\* rounding of the arithmetic: each differs from it by at most 2^-40.
C15_RoundTripNear ==
    \A c \in TrendCalls : \A m \in Gradients : \A b \in Gradients :
        (OnLineOf(c.pre, m, b) /\ DistinctXs(c.pre))
        => /\ Near(c.trend.slope, m, WideTolerance)
           /\ Near(c.trend.intercept, b, WideTolerance)
           /\ NearPoints(c.trend.data, c.pre)

\* three samples of the line with slope -1 and intercept 2/5, not all at the
\* same x: the returned slope is near -1, and the returned intercept is near
\* 2/5 and is not 2/5
C15_Witness ==
    \E c \in TrendCalls :
        /\ Len(c.pre) = 3
        /\ OnLineOf(c.pre, NumOf(-1), Frac(2, 5)) /\ DistinctXs(c.pre)
        /\ ~NumEq(c.trend.intercept, Frac(2, 5))
        /\ Near(c.trend.intercept, Frac(2, 5), WideTolerance)
        /\ Near(c.trend.slope, NumOf(-1), WideTolerance)

----------------------------------------------------------------------------
(* The older variant of getLineIntersectionData, with canConvergeLeft and
   canConvergeRight; the other options keep their defaults *)

\* user_options with the two keys; a boolean is Val(True) or Val(False), a
\* function returning r is Fn(r)
OldOptions(ccl, ccr) == [canConvergeLeft |-> ccl, canConvergeRight |-> ccr]

\* typeof v === 'boolean' && !v, or typeof v === 'function' && !v()
Forbids(v) ==
    \/ v.k = "val" /\ v.r[1] = "bool" /\ ~Truthy(v.r)
    \/ v.k = "fn" /\ ~Truthy(v.r)

\* the class checks of line1_data, line2_data, line1_data[0], line2_data[0]
ArgumentsOkOld(h, l1, l2) ==
    /\ ClassOf(h, l1) = "Array" /\ ClassOf(h, l2) = "Array"
    /\ ClassOf(h, Index(h, l1, 0)) = "Array" /\ ClassOf(h, Index(h, l2, 0)) = "Array"

\* line1M and line2M: DY / DX of the end points p of a line
SlopeOf(h, p) == NumDiv(Sub(h, p[4], p[2]), Sub(h, p[3], p[1]))

\* line1C and line2C: y - M * x at the first point
OffsetOf(h, p, M) == Sub(h, p[2], Mul(h, M, p[1]))

\* icptX = -1 * (line1C - line2C) / (line1M - line2M)
IcptXOld(line1M, line2M, line1C, line2C) ==
    NumDiv(NumMul(NumOf(-1), NumSub(line1C, line2C)), NumSub(line1M, line2M))

\* icptY = line1M * icptX + line1C
IcptYOld(line1M, line1C, icptX) == NumAdd(NumMul(line1M, icptX), line1C)

\* The two scans of the insertion loops, over the elements low..high of the
\* line: the index of the element found, 0 when there is none, -1 when
\* reading [0] of an element that is null or undefined throws a TypeError
\* before one is found. The half of the range that the loop reaches later is
\* looked at when the scan of the other half (found) has come to its end.

RECURSIVE LastBelow(_, _, _, _, _)

LastBelowOn(h, s, icptX, low, mid, found) ==
    IF found # 0 THEN found ELSE LastBelow(h, s, icptX, low, mid)

\* the scan from the end for an element with [0] < icptX
LastBelow(h, s, icptX, low, high) ==
    IF low > high THEN 0
    ELSE IF low = high
         THEN IF IsNullish(s[low]) THEN -1
              ELSE IF Lt(h, Index(h, s[low], 0), icptX) THEN low
              ELSE 0
    ELSE LastBelowOn(h, s, icptX, low, low + ((high - low) \div 2),
             LastBelow(h, s, icptX, low + ((high - low) \div 2) + 1, high))

RECURSIVE FirstAbove(_, _, _, _, _)

FirstAboveOn(h, s, icptX, mid, high, found) ==
    IF found # 0 THEN found ELSE FirstAbove(h, s, icptX, mid + 1, high)

\* the scan from the start for an element with [0] > icptX
FirstAbove(h, s, icptX, low, high) ==
    IF low > high THEN 0
    ELSE IF low = high
         THEN IF IsNullish(s[low]) THEN -1
              ELSE IF Lt(h, icptX, Index(h, s[low], 0)) THEN low
              ELSE 0
    ELSE FirstAboveOn(h, s, icptX, low + ((high - low) \div 2), high,
             FirstAbove(h, s, icptX, low, low + ((high - low) \div 2)))

\* s with point put after position i
SpliceAfter(s, i, point) == SubSeq(s, 1, i) \o <<point>> \o SubSeq(s, i + 1, Len(s))

\* line.splice(...) at the element the scan found: i is its index, and the
\* point goes after position i - before; nothing is inserted when the scan
\* found no element (i = 0), and <<>> stands for its TypeError (i = -1; a
\* line is never empty)
SpliceFound(s, point, i, before) ==
    IF i = -1 THEN <<>>
    ELSE IF i = 0 THEN s
    ELSE SpliceAfter(s, i - before, point)

\* one round of either insertion loop: the elements of the line afterwards,
\* or <<>> for a TypeError
SpliceInto(h, s, point, icptX, fromEnd) ==
    IF fromEnd
    THEN SpliceFound(s, point, LastBelow(h, s, icptX, 1, Len(s)), 0)
    ELSE SpliceFound(s, point, FirstAbove(h, s, icptX, 1, Len(s)), 1)

\* the loop over lines, from line idx on; a TypeError leaves the loop, and
\* a line whose scan found no element stays as it is
RECURSIVE SpliceIntoLines(_, _, _, _, _, _, _, _)

SpliceIntoLine(h, point, lines, idx, icptX, icptY, fromEnd, log, s) ==
    IF s = <<>> THEN Thrown(h, log)
    ELSE SpliceIntoLines([h EXCEPT ![lines[idx]].e = s], point, lines, idx + 1,
                         icptX, icptY, fromEnd,
                         IF s = h[lines[idx]].e THEN log
                         ELSE Append(log, Event("insert", NumOf(idx), Undefined)))

SpliceIntoLines(h, point, lines, idx, icptX, icptY, fromEnd, log) ==
    IF idx > Len(lines)
    THEN Outcome(h, "result", icptX, icptY, Ref(lines[1]), Ref(lines[2]), log)
    ELSE SpliceIntoLine(h, point, lines, idx, icptX, icptY, fromEnd, log,
                        SpliceInto(h, h[lines[idx]].e, point, icptX, fromEnd))

\* the default icptPoint as a new pair at address Len(h) + 1, spliced into
\* both copies, and the returned object
InsertOld(h, line1, line2, icptX, icptY, fromEnd, log) ==
    SpliceIntoLines(Append(h, NewArr(<<icptX, icptY>>)), Ref(Len(h) + 1),
                    <<line1, line2>>, 1, icptX, icptY, fromEnd, log)

\* from icptX and icptY on: the already-meeting return, the default
\* validateIntersection, and the insertion
MeetOld(h, line1, line2, p, q, icptX, icptY) ==
    IF AlreadyIntersect(h, icptX, p, q)
    THEN NoResult(h, <<Event("onLinesAlreadyMeet", icptX, icptY)>>)
    ELSE InsertOld(h, line1, line2, icptX, icptY, Lt(h, p[1], icptX),
                   <<Event("validateIntersection", icptX, icptY)>>)

\* icptY, from icptX
PointOld(h, line1, line2, p, q, line1M, line1C, icptX) ==
    MeetOld(h, line1, line2, p, q, icptX, IcptYOld(line1M, line1C, icptX))

\* icptX, from the slopes and the offsets
OffsetsOld(h, line1, line2, p, q, line1M, line2M, line1C, line2C) ==
    PointOld(h, line1, line2, p, q, line1M, line1C,
             IcptXOld(line1M, line2M, line1C, line2C))

\* line1C and line2C, from the slopes
SlopesOld(h, line1, line2, p, q, line1M, line2M) ==
    OffsetsOld(h, line1, line2, p, q, line1M, line2M,
               OffsetOf(h, p, line1M), OffsetOf(h, q, line2M))

\* the three branches on the sign of denom, and line1M and line2M
ConvergeOld(h, opt, line1, line2, p, q, denom) ==
    IF IsParallel(denom)
    THEN NoResult(h, <<Event("onParallel", Undefined, Undefined)>>)
    ELSE IF Forbids(IF NumLt(NumOf(0), denom) THEN opt.canConvergeRight
                    ELSE opt.canConvergeLeft)
    THEN NoResult(h, <<>>)
    ELSE SlopesOld(h, line1, line2, p, q, SlopeOf(h, p), SlopeOf(h, q))

SlicedOld(h1, opt, line1, line2) ==
    IF LastThrows(h1, Ref(line1)) \/ LastThrows(h1, Ref(line2))
    THEN Thrown(h1, <<>>)
    ELSE ConvergeOld(h1, opt, line1, line2,
                     EndPoints(h1, Ref(line1)), EndPoints(h1, Ref(line2)),
                     Denom(h1, EndPoints(h1, Ref(line1)), EndPoints(h1, Ref(line2))))

GetLineIntersectionDataOld(h, line1_data, line2_data, opt) ==
    IF IsNullish(line1_data) \/ IsNullish(line2_data) THEN Thrown(h, <<>>)
    ELSE IF ~ArgumentsOkOld(h, line1_data, line2_data) THEN NoResult(h, <<>>)
    ELSE IF TooShort(h, line1_data) \/ TooShort(h, line2_data) THEN NoResult(h, <<>>)
    ELSE SlicedOld(Slice(Slice(h, line1_data), line2_data), opt, Len(h) + 1, Len(h) + 2)

\* the caller calls the older getLineIntersectionData(a1, a2, opt)
CallOld(a1, a2, opt) ==
    /\ budget > 0
    /\ \E r \in {GetLineIntersectionDataOld(heap, a1, a2, opt)} :
           /\ heap' = r.heap
           /\ calls' = Append(calls, CallRecord(heap, a1, a2, opt, r))
    /\ budget' = budget - 1
    /\ UNCHANGED <<lineA, lineB, optset>>

NextOld == \E opt \in optset : CallOld(lineA, lineB, opt)

\* canConvergeLeft and canConvergeRight as booleans, or canConvergeLeft as a
\* function returning false
OptsOld ==
    {OldOptions(Val(True), Val(True)), OldOptions(Val(False), Val(True)),
     OldOptions(Val(True), Val(False)), OldOptions(Fn(False), Val(True))}

\* one call of the older variant on two lines of two points each
InitOld ==
    \E p1 \in Points, p2 \in Points, p3 \in UnitPoints, p4 \in Points :
        InitWith(Line(<<p1, p2>>), Line(<<p3, p4>>), OptsOld, 1)

SpecOld == InitOld /\ [][NextOld]_vars

----------------------------------------------------------------------------
(* C18 *)

\* C18: with canConvergeLeft false and canConvergeRight true the older
\* variant returns no result whose icptX is smaller than the x of the first
\* point of the lines. (Stated for a point to the left of the first point of
\* both lines, the weakest reading of "either line".)
C18_NeverMeetsOnTheLeft ==
    \A c \in Called :
        (/\ ValidLines(c)
         /\ c.user_options = OldOptions(Val(False), Val(True))
         /\ c.out = "result")
        => ~(NumLt(c.icptX, CoordX(c.pre1[1])) /\ NumLt(c.icptX, CoordX(c.pre2[1])))

====
